---- MODULE Spec2Model ----
(***************************************************************************)
(* SonicDB: an in-process document store with a hash index, a B-Tree       *)
(* ordered index, a query planner/executor and a result cache.             *)
(*                                                                         *)
(* Arrays of the source are 0-based; sequences here are 1-based.  Every    *)
(* index variable (idx, slot numbers) keeps the source's 0-based value and *)
(* an array read a[i] is written At(a, i).                                 *)
(* An optional value (V | undefined) is a sequence of length 0 or 1.       *)
(***************************************************************************)
EXTENDS Integers, Sequences, FiniteSets, TLC

\* ------------------------------------------------------------------ bounds

\* OrderedIndex, stand-alone: keys are 1..MaxKey
MaxKey == 9
\* OrderedIndex, stand-alone: the largest minimum degree t tried (2..MaxDegree)
MaxDegree == 3
\* SonicDB: field values are 0..MaxVal
MaxVal == 1
\* SonicDB: the slot array holds at most MaxDocs slots
MaxDocs == 2
\* SonicDB: loadData is given at most MaxLoad documents
MaxLoad == 2
\* SonicDB: the result cache holds at most MaxCache entries
MaxCache == 1
\* SonicDB: at most MaxHooks callbacks are registered
MaxHooks == 2
\* OrderedIndex, range calls: keys and bounds are 1..MaxRangeKey
MaxRangeKey == 8
\* range: when both $gt and $gte (or both $lt and $lte) are given, they differ
\* by at most MaxBoundGap
MaxBoundGap == 0

\* ----------------------------------------------------------- array helpers

None == <<>>
Some(v) == <<v>>
IsSome(o) == o # <<>>
Get(o) == o[1]

At(a, i) == a[i + 1]
SetAt(a, i, x) == [a EXCEPT ![i + 1] = x]
\* a.slice(from, to): elements from..to-1
Slice(a, from, to) == SubSeq(a, from + 1, to)
\* a.splice(i, 1)
RemoveAt(a, i) == Slice(a, 0, i) \o Slice(a, i + 1, Len(a))
\* a.splice(i, 0, x)
InsertAt(a, i, x) == Slice(a, 0, i) \o <<x>> \o Slice(a, i, Len(a))
Last(a) == a[Len(a)]
\* a after a.pop()
Front(a) == SubSeq(a, 1, Len(a) - 1)

\* ------------------------------------------------------------ BTreeNode

\* new BTreeNode(tree): no keys, no values, no children, leaf
EmptyNode == [keys |-> <<>>, values |-> <<>>, children |-> <<>>, leaf |-> TRUE]

\* the value JavaScript reads for a field a document does not have
Undefined == -2

\* a > b as JavaScript evaluates it on the keys of the model: numbers compare
\* as numbers, and a comparison with undefined is false either way round
Gt(a, b) == a # Undefined /\ b # Undefined /\ a > b

RECURSIVE ScanUp(_, _, _)
\* while (idx < keys.length && key > keys[idx]) idx++
ScanUp(keys, key, idx) ==
    IF idx < Len(keys) /\ Gt(key, At(keys, idx)) THEN ScanUp(keys, key, idx + 1) ELSE idx

findChildIndex(n, key) == ScanUp(n.keys, key, 0)

RECURSIVE search(_, _)
search(n, key) ==
    LET idx == ScanUp(n.keys, key, 0) IN
    IF idx < Len(n.keys) /\ key = At(n.keys, idx) THEN Some(At(n.values, idx))
    ELSE IF n.leaf THEN None
    ELSE search(At(n.children, idx), key)

\* A range object {$gt, $gte, $lt, $lte}: each bound an optional key
NoRange == [gt |-> None, gte |-> None, lt |-> None, lte |-> None]

tooSmall(r, key) ==
    \/ (IsSome(r.gt) /\ ~(key > Get(r.gt)))
    \/ (IsSome(r.gte) /\ ~(key >= Get(r.gte)))

tooLarge(r, key) ==
    \/ (IsSome(r.lt) /\ ~(key < Get(r.lt)))
    \/ (IsSome(r.lte) /\ ~(key <= Get(r.lte)))

RECURSIVE RangeStart(_, _, _)
\* first loop of range: skip the keys that are too small
RangeStart(keys, r, idx) ==
    IF idx < Len(keys) /\ tooSmall(r, At(keys, idx)) THEN RangeStart(keys, r, idx + 1) ELSE idx

RECURSIVE range(_, _)
RECURSIVE RangeKeys(_, _, _)
\* range without step 1, the visit of the child left of the first key in range
range_NoLeftChild(n, r) == RangeKeys(n, r, RangeStart(n.keys, r, 0))

\* second loop of range, from idx: the sequence of callback(key, value) calls
RangeKeys(n, r, idx) ==
    IF idx < Len(n.keys)
    THEN IF tooLarge(r, At(n.keys, idx))
         THEN <<>>
         ELSE <<<<At(n.keys, idx), At(n.values, idx)>>>>
              \o (IF ~n.leaf THEN range(At(n.children, idx + 1), r) ELSE <<>>)
              \o RangeKeys(n, r, idx + 1)
    ELSE <<>>

\* BTreeNode.range: the sequence of <<key, value>> pairs handed to the callback
range(n, r) ==
    LET idx == RangeStart(n.keys, r, 0) IN
    (IF ~n.leaf THEN range(At(n.children, idx), r) ELSE <<>>) \o RangeKeys(n, r, idx)

RECURSIVE ScanDown(_, _, _)
\* while (idx >= 0 && key < keys[idx]) idx--
ScanDown(keys, key, idx) ==
    IF idx >= 0 /\ Gt(At(keys, idx), key) THEN ScanDown(keys, key, idx - 1) ELSE idx

\* the elements a.splice(t) returns (those from index t on), and what it leaves
SpliceTail(a, t) == IF t < Len(a) THEN Slice(a, t, Len(a)) ELSE <<>>
SpliceHead(a, t) == IF t < Len(a) THEN Slice(a, 0, t) ELSE a

\* _splitChild that moves the median up and also leaves it in the child
_splitChild_KeepMedian(n, idx, t) ==
    LET childToSplit == At(n.children, idx)
        newSibling ==
            [keys |-> SpliceTail(childToSplit.keys, t),
             values |-> SpliceTail(childToSplit.values, t),
             children |-> IF ~childToSplit.leaf
                          THEN SpliceTail(childToSplit.children, t)
                          ELSE <<>>,
             leaf |-> childToSplit.leaf]
        kept == SpliceHead(childToSplit.keys, t)
        keptV == SpliceHead(childToSplit.values, t)
        left ==
            [keys |-> kept,
             values |-> keptV,
             children |-> IF ~childToSplit.leaf
                          THEN SpliceHead(childToSplit.children, t)
                          ELSE childToSplit.children,
             leaf |-> childToSplit.leaf]
    IN [keys |-> InsertAt(n.keys, idx, Last(kept)),
        values |-> InsertAt(n.values, idx, Last(keptV)),
        children |-> InsertAt(SetAt(n.children, idx, left), idx + 1, newSibling),
        leaf |-> n.leaf]

_splitChild(n, idx, t) ==
    LET childToSplit == At(n.children, idx)
        newSibling ==
            [keys |-> SpliceTail(childToSplit.keys, t),
             values |-> SpliceTail(childToSplit.values, t),
             children |-> IF ~childToSplit.leaf
                          THEN SpliceTail(childToSplit.children, t)
                          ELSE <<>>,
             leaf |-> childToSplit.leaf]
        kept == SpliceHead(childToSplit.keys, t)
        keptV == SpliceHead(childToSplit.values, t)
        left ==
            [keys |-> Front(kept),
             values |-> Front(keptV),
             children |-> IF ~childToSplit.leaf
                          THEN SpliceHead(childToSplit.children, t)
                          ELSE childToSplit.children,
             leaf |-> childToSplit.leaf]
    IN [keys |-> InsertAt(n.keys, idx, Last(kept)),
        values |-> InsertAt(n.values, idx, Last(keptV)),
        children |-> InsertAt(SetAt(n.children, idx, left), idx + 1, newSibling),
        leaf |-> n.leaf]

RECURSIVE insertNonFull_StaleIdx(_, _, _, _)
\* insertNonFull that keeps idx after a split, also when key is above the median
insertNonFull_StaleIdx(n, key, value, t) ==
    LET idx == ScanDown(n.keys, key, Len(n.keys) - 1) IN
    IF n.leaf
    THEN [n EXCEPT !.keys = InsertAt(n.keys, idx + 1, key),
                   !.values = InsertAt(n.values, idx + 1, value)]
    ELSE LET i0 == idx + 1
             full == Len(At(n.children, i0).keys) = (2 * t) - 1
             Descend(m) ==
                 [m EXCEPT !.children = SetAt(m.children, i0, insertNonFull_StaleIdx(At(m.children, i0), key, value, t))]
         IN Descend(IF full THEN _splitChild(n, i0, t) ELSE n)

RECURSIVE insertNonFull(_, _, _, _)
insertNonFull(n, key, value, t) ==
    LET idx == ScanDown(n.keys, key, Len(n.keys) - 1) IN
    IF n.leaf
    THEN [n EXCEPT !.keys = InsertAt(n.keys, idx + 1, key),
                   !.values = InsertAt(n.values, idx + 1, value)]
    ELSE LET i0 == idx + 1
             full == Len(At(n.children, i0).keys) = (2 * t) - 1
             Descend(m) ==
                 LET i1 == IF full /\ Gt(key, At(m.keys, i0)) THEN i0 + 1 ELSE i0 IN
                 [m EXCEPT !.children = SetAt(m.children, i1, insertNonFull(At(m.children, i1), key, value, t))]
         IN Descend(IF full THEN _splitChild(n, i0, t) ELSE n)

\* ------------------------------------------------- BTreeNode: deletion

RECURSIVE MaxEntry(_)
\* the walk of _getPredecessor from its starting child: the rightmost entry
MaxEntry(current) ==
    IF ~current.leaf THEN MaxEntry(At(current.children, Len(current.keys)))
    ELSE [key |-> Last(current.keys), value |-> Last(current.values)]

RECURSIVE MinEntry(_)
\* the walk of _getSuccessor from its starting child: the leftmost entry
MinEntry(current) ==
    IF ~current.leaf THEN MinEntry(At(current.children, 0))
    ELSE [key |-> At(current.keys, 0), value |-> At(current.values, 0)]

_getPredecessor(n, idx) == MaxEntry(At(n.children, idx))

_getSuccessor(n, idx) == MinEntry(At(n.children, idx + 1))

_borrowFromPrev(n, idx) ==
    LET child == At(n.children, idx)
        sibling == At(n.children, idx - 1)
        child2 == [child EXCEPT
                     !.keys = <<At(n.keys, idx - 1)>> \o child.keys,
                     !.values = <<At(n.values, idx - 1)>> \o child.values,
                     !.children = IF ~child.leaf
                                  THEN <<Last(sibling.children)>> \o child.children
                                  ELSE child.children]
        sibling2 == [sibling EXCEPT
                       !.keys = Front(sibling.keys),
                       !.values = Front(sibling.values),
                       !.children = IF ~child.leaf THEN Front(sibling.children)
                                    ELSE sibling.children]
    IN [n EXCEPT !.keys = SetAt(n.keys, idx - 1, Last(sibling.keys)),
                 !.values = SetAt(n.values, idx - 1, Last(sibling.values)),
                 !.children = SetAt(SetAt(n.children, idx, child2), idx - 1, sibling2)]

_borrowFromNext(n, idx) ==
    LET child == At(n.children, idx)
        sibling == At(n.children, idx + 1)
        child2 == [child EXCEPT
                     !.keys = Append(child.keys, At(n.keys, idx)),
                     !.values = Append(child.values, At(n.values, idx)),
                     !.children = IF ~child.leaf
                                  THEN Append(child.children, At(sibling.children, 0))
                                  ELSE child.children]
        sibling2 == [sibling EXCEPT
                       !.keys = Tail(sibling.keys),
                       !.values = Tail(sibling.values),
                       !.children = IF ~child.leaf THEN Tail(sibling.children)
                                    ELSE sibling.children]
    IN [n EXCEPT !.keys = SetAt(n.keys, idx, At(sibling.keys, 0)),
                 !.values = SetAt(n.values, idx, At(sibling.values, 0)),
                 !.children = SetAt(SetAt(n.children, idx, child2), idx + 1, sibling2)]

\* _merge that does not take the parent's entry down into the merged node
_merge_DropEntry(n, idx) ==
    LET child == At(n.children, idx)
        sibling == At(n.children, idx + 1)
        child2 == [child EXCEPT
                     !.keys = child.keys \o sibling.keys,
                     !.values = child.values \o sibling.values,
                     !.children = IF ~child.leaf THEN child.children \o sibling.children
                                  ELSE child.children]
    IN [n EXCEPT !.keys = RemoveAt(n.keys, idx),
                 !.values = RemoveAt(n.values, idx),
                 !.children = RemoveAt(SetAt(n.children, idx, child2), idx + 1)]

_merge(n, idx) ==
    LET child == At(n.children, idx)
        sibling == At(n.children, idx + 1)
        child2 == [child EXCEPT
                     !.keys = Append(child.keys, At(n.keys, idx)) \o sibling.keys,
                     !.values = Append(child.values, At(n.values, idx)) \o sibling.values,
                     !.children = IF ~child.leaf THEN child.children \o sibling.children
                                  ELSE child.children]
    IN [n EXCEPT !.keys = RemoveAt(n.keys, idx),
                 !.values = RemoveAt(n.values, idx),
                 !.children = RemoveAt(SetAt(n.children, idx, child2), idx + 1)]

\* _fill that only ever borrows from the previous sibling
_fill_NoMerge(n, idx, t) ==
    IF idx # 0 /\ Len(At(n.children, idx - 1).keys) >= t THEN _borrowFromPrev(n, idx)
    ELSE n

\* _fill that leaves the last child alone when it cannot borrow
_fill_SkipLast(n, idx, t) ==
    IF idx # 0 /\ Len(At(n.children, idx - 1).keys) >= t THEN _borrowFromPrev(n, idx)
    ELSE IF idx # Len(n.keys) /\ Len(At(n.children, idx + 1).keys) >= t THEN _borrowFromNext(n, idx)
    ELSE IF idx # Len(n.keys) THEN _merge(n, idx)
    ELSE n

_fill(n, idx, t) ==
    IF idx # 0 /\ Len(At(n.children, idx - 1).keys) >= t THEN _borrowFromPrev(n, idx)
    ELSE IF idx # Len(n.keys) /\ Len(At(n.children, idx + 1).keys) >= t THEN _borrowFromNext(n, idx)
    ELSE IF idx # Len(n.keys) THEN _merge(n, idx)
    ELSE _merge(n, idx - 1)

RECURSIVE delete(_, _, _)
_deleteFromInternal(n, idx, t) ==
    LET key == At(n.keys, idx)
        prevChild == At(n.children, idx)
        nextChild == At(n.children, idx + 1)
    IN IF Len(prevChild.keys) >= t
       THEN LET pred == _getPredecessor(n, idx) IN
            [n EXCEPT !.keys = SetAt(n.keys, idx, pred.key),
                      !.values = SetAt(n.values, idx, pred.value),
                      !.children = SetAt(n.children, idx, delete(prevChild, pred.key, t))]
       ELSE IF Len(nextChild.keys) >= t
       THEN LET succ == _getSuccessor(n, idx) IN
            [n EXCEPT !.keys = SetAt(n.keys, idx, succ.key),
                      !.values = SetAt(n.values, idx, succ.value),
                      !.children = SetAt(n.children, idx + 1, delete(nextChild, succ.key, t))]
       ELSE LET Descend(m) ==
                    [m EXCEPT !.children = SetAt(m.children, idx, delete(At(m.children, idx), key, t))]
            IN Descend(_merge(n, idx))

\* BTreeNode.delete
delete(n, key, t) ==
    LET idx == findChildIndex(n, key) IN
    IF idx < Len(n.keys) /\ At(n.keys, idx) = key
    THEN IF n.leaf
         THEN [n EXCEPT !.keys = RemoveAt(n.keys, idx), !.values = RemoveAt(n.values, idx)]
         ELSE _deleteFromInternal(n, idx, t)
    ELSE IF n.leaf THEN n
    ELSE LET isLastChild == (idx = Len(n.keys))
             child == At(n.children, idx)
             Descend(m) ==
                 LET target == IF isLastChild /\ idx > Len(m.keys) THEN idx - 1 ELSE idx IN
                 [m EXCEPT !.children = SetAt(m.children, target, delete(At(m.children, target), key, t))]
         IN Descend(IF Len(child.keys) < t THEN _fill(n, idx, t) ELSE n)

\* the recursive call child.delete(..) that n.delete(key) makes, if it makes
\* one: the parent as it is at the call, the position of the child called,
\* the key passed and whether _fill ran first
NextDescent(n, key, t) ==
    LET idx == findChildIndex(n, key)
        Into(m, target, k, filled) ==
            Some([parent |-> m, target |-> target, key |-> k, idx |-> idx, filled |-> filled])
    IN
    IF idx < Len(n.keys) /\ At(n.keys, idx) = key
    THEN IF n.leaf THEN None
         ELSE IF Len(At(n.children, idx).keys) >= t
              THEN Into(n, idx, _getPredecessor(n, idx).key, FALSE)
              ELSE IF Len(At(n.children, idx + 1).keys) >= t
              THEN Into(n, idx + 1, _getSuccessor(n, idx).key, FALSE)
              ELSE Into(_merge(n, idx), idx, key, FALSE)
    ELSE IF n.leaf THEN None
    ELSE LET isLastChild == (idx = Len(n.keys))
             child == At(n.children, idx)
             After(m) ==
                 Into(m, IF isLastChild /\ idx > Len(m.keys) THEN idx - 1 ELSE idx,
                      key, Len(child.keys) < t)
         IN After(IF Len(child.keys) < t THEN _fill(n, idx, t) ELSE n)

\* the child a descent enters
Entered(d) == At(d.parent.children, d.target)

RECURSIVE Descents(_, _, _)
\* all the recursive calls of n.delete(key), down to the last
Descents(n, key, t) ==
    LET Rest(next) ==
            IF IsSome(next)
            THEN {Get(next)} \cup Descents(Entered(Get(next)), Get(next).key, t)
            ELSE {}
    IN Rest(NextDescent(n, key, t))

\* ------------------------------------------------------------------ BTree

\* new BTree(t) for t >= 2: an empty leaf root
NewBTree(t) == [t |-> t, root |-> EmptyNode]

\* a constructor that accepts every degree
BTreeConstructor_NoCheck(t) == [threw |-> "", tree |-> Some(NewBTree(t))]

\* constructor(t): throws "B-Tree degree 't' must be at least 2." for t < 2,
\* and then there is no tree
BTreeConstructor(t) ==
    IF t < 2 THEN [threw |-> "degree", tree |-> None]
    ELSE [threw |-> "", tree |-> Some(NewBTree(t))]

BTreeSearch(tree, key) == search(tree.root, key)

BTreeRange(tree, r) == range(tree.root, r)

\* keys.findIndex(k => k === key), -1 when there is none
RECURSIVE FindIndexFrom(_, _, _)
FindIndexFrom(keys, key, idx) ==
    IF idx >= Len(keys) THEN -1
    ELSE IF At(keys, idx) = key THEN idx
    ELSE FindIndexFrom(keys, key, idx + 1)

RECURSIVE ProbeReplace(_, _, _)
\* the existence probe of BTree.insert, from node current: the node with the
\* value of key replaced, or nothing when the walk ends without finding key
ProbeReplace(current, key, value) ==
    LET idx == FindIndexFrom(current.keys, key, 0) IN
    IF idx # -1 THEN Some([current EXCEPT !.values = SetAt(current.values, idx, value)])
    ELSE IF current.leaf THEN None
    ELSE LET c == ScanUp(current.keys, key, 0)
             sub == ProbeReplace(At(current.children, c), key, value)
         IN IF IsSome(sub)
            THEN Some([current EXCEPT !.children = SetAt(current.children, c, Get(sub))])
            ELSE None

\* insert without the existence probe
BTreeInsert_NoProbe(tree, key, value) ==
    LET r == tree.root
        newRoot == [keys |-> <<>>, values |-> <<>>, children |-> <<r>>, leaf |-> FALSE]
    IN [tree EXCEPT !.root =
          insertNonFull(IF Len(r.keys) = (2 * tree.t) - 1
                        THEN _splitChild(newRoot, 0, tree.t) ELSE r,
                        key, value, tree.t)]

\* insert that splits a full root before it looks for the key
BTreeInsert_SplitFirst(tree, key, value) ==
    LET r == tree.root
        newRoot == [keys |-> <<>>, values |-> <<>>, children |-> <<r>>, leaf |-> FALSE]
        Probed(base, probe) ==
            IF IsSome(probe) THEN [tree EXCEPT !.root = Get(probe)]
            ELSE [tree EXCEPT !.root = insertNonFull(base, key, value, tree.t)]
        Split(base) == Probed(base, ProbeReplace(base, key, value))
    IN Split(IF Len(r.keys) = (2 * tree.t) - 1 THEN _splitChild(newRoot, 0, tree.t) ELSE r)

BTreeInsert(tree, key, value) ==
    LET r == tree.root
        newRoot == [keys |-> <<>>, values |-> <<>>, children |-> <<r>>, leaf |-> FALSE]
        Probed(probe) ==
            IF IsSome(probe) THEN [tree EXCEPT !.root = Get(probe)]
            ELSE [tree EXCEPT !.root =
                    insertNonFull(IF Len(r.keys) = (2 * tree.t) - 1
                                  THEN _splitChild(newRoot, 0, tree.t) ELSE r,
                                  key, value, tree.t)]
    IN Probed(ProbeReplace(r, key, value))

\* delete that never replaces the root
BTreeDelete_KeepRoot(tree, key) == [tree EXCEPT !.root = delete(tree.root, key, tree.t)]

BTreeDelete(tree, key) ==
    LET Shrink(r) ==
            IF Len(r.keys) = 0 /\ ~r.leaf THEN [tree EXCEPT !.root = At(r.children, 0)]
            ELSE [tree EXCEPT !.root = r]
    IN Shrink(delete(tree.root, key, tree.t))

\* ------------------------------ BTree: its loop and recursions, call by call

\* no call under way
Idle == [op |-> "idle", key |-> 0, value |-> <<>>, seek |-> 0, at |-> <<>>]

\* the pass of insert's probe without the test for a leaf: current never
\* becomes null
ProbeStep_NoNull(current, key) ==
    IF FindIndexFrom(current.keys, key, 0) # -1 THEN [found |-> TRUE, current |-> None]
    ELSE [found |-> FALSE,
          current |-> IF current.leaf THEN Some(current)
                      ELSE Some(At(current.children, ScanUp(current.keys, key, 0)))]

\* one pass of the loop while (current) of insert: the key is found and the
\* call returns, or current becomes null at a leaf, or the child to go to
ProbeStep(current, key) ==
    IF FindIndexFrom(current.keys, key, 0) # -1 THEN [found |-> TRUE, current |-> None]
    ELSE [found |-> FALSE,
          current |-> IF current.leaf THEN None
                      ELSE Some(At(current.children, ScanUp(current.keys, key, 0)))]

\* the child insertNonFull calls itself on from the internal node n
InsertDescent(n, key, t) ==
    LET i0 == ScanDown(n.keys, key, Len(n.keys) - 1) + 1
        full == Len(At(n.children, i0).keys) = (2 * t) - 1
        Entering(m) == At(m.children, IF full /\ Gt(key, At(m.keys, i0)) THEN i0 + 1 ELSE i0)
    IN Entering(IF full THEN _splitChild(n, i0, t) ELSE n)

RECURSIVE RangeCalls(_, _, _)
\* the children the second loop of range calls range on, from idx
RangeCalls(n, r, idx) ==
    IF idx < Len(n.keys) /\ ~tooLarge(r, At(n.keys, idx))
    THEN <<At(n.children, idx + 1)>> \o RangeCalls(n, r, idx + 1)
    ELSE <<>>

\* all the children range calls itself on from node n, in order
RangeDescents(n, r) ==
    IF n.leaf THEN <<>>
    ELSE LET idx == RangeStart(n.keys, r, 0) IN <<At(n.children, idx)>> \o RangeCalls(n, r, idx)

\* ------------------------------------------------------------------ state

VARIABLES
    tree,           \* stand-alone OrderedIndex: a BTree [t, root]
    written,        \* stand-alone OrderedIndex: per key, the value of the last
                    \* insert not followed by a delete
    indexTypes,     \* SonicDB.indexTypes: indexed field -> "hash" | "btree"
    uniqueKeys,     \* SonicDB.uniqueKeys
    cacheEnabled,   \* SonicDB.cacheEnabled
    data,           \* SonicDB.data: per slot a document or null
    hashIndexes,    \* SonicDB.hashIndexes: field -> (value -> slot list)
    btreeIndexes,   \* SonicDB.btreeIndexes: field -> BTree
    queryCache,     \* SonicDB.queryCache: JSON.stringify(query) -> slot list
    hooks,          \* SonicDB.hooks: "pre:event" | "post:event" -> callbacks
    walk            \* stand-alone OrderedIndex: the call under way, with the
                    \* nodes its loop or recursion has still to visit

treeVars == <<tree, written, walk>>
configVars == <<indexTypes, uniqueKeys, cacheEnabled>>
storeVars == <<data, hashIndexes, btreeIndexes, queryCache>>
hookVars == <<hooks>>
vars == <<tree, written, indexTypes, uniqueKeys, cacheEnabled, data, hashIndexes, btreeIndexes, queryCache, hooks, walk>>

\* ------------------------------------------------------- documents, queries

\* the fields documents and queries use, in the order they are written
FieldOrder == <<"a", "b">>
Fields == {"a", "b"}

\* field values are the numbers 0..MaxVal; NotANumber stands for a value of
\* another primitive kind (a string), which the schema rejects
Values == 0..MaxVal
NotANumber == -1

\* options.schema: every field is declared Number
Schema == [f \in Fields |-> "Number"]

\* a document or a patch: a mapping from some of the fields to values
DocsOver(vals) == UNION {[fs -> vals] : fs \in SUBSET Fields}
Docs == DocsOver(Values)
AnyDocs == DocsOver(Values \cup {NotANumber})

\* doc.hasOwnProperty(key)
HasOwn(doc, key) == key \in DOMAIN doc
\* doc[key]: undefined when the document has no such field
Field(doc, key) == IF key \in DOMAIN doc THEN Some(doc[key]) ELSE None

\* a merge that keeps only the fields of update
Merge_Replace(oldDoc, update) == update

\* { ...oldDoc, ...update }
Merge(oldDoc, update) ==
    [k \in (DOMAIN oldDoc) \cup (DOMAIN update) |->
        IF k \in DOMAIN update THEN update[k] ELSE oldDoc[k]]

\* A query is the sequence of its [key, value] entries in Object.keys order.
\* A query value is a plain literal or an operator object; an operator object
\* is the sequence of its <<operator, operand>> entries in Object.keys order.
Lit(v) == [isOp |-> FALSE, lit |-> v, ops |-> <<>>]
Ops(seq) == [isOp |-> TRUE, lit |-> 0, ops |-> seq]

\* queryValue[op]: undefined when the operator object has no such key
RECURSIVE OpFrom(_, _, _)
OpFrom(ops, name, i) ==
    IF i > Len(ops) THEN None
    ELSE IF ops[i][1] = name THEN Some(ops[i][2])
    ELSE OpFrom(ops, name, i + 1)
Op(qv, name) == IF qv.isOp THEN OpFrom(qv.ops, name, 1) ELSE None

\* query[key]
RECURSIVE QueryValueFrom(_, _, _)
QueryValueFrom(query, key, i) ==
    IF query[i].key = key THEN query[i].value ELSE QueryValueFrom(query, key, i + 1)
QueryValue(query, key) == QueryValueFrom(query, key, 1)

\* JavaScript truthiness of a number
Truthy(v) == v # 0

\* array.includes(x)
Includes(array, x) == \E i \in 1..Len(array) : array[i] = x

\* ------------------------------------------------------ JSON.stringify

StringifyValue(v) == ToString(v)

RECURSIVE StringifyArrayFrom(_, _)
StringifyArrayFrom(array, i) ==
    IF i > Len(array) THEN ""
    ELSE (IF i > 1 THEN "," ELSE "") \o StringifyValue(array[i]) \o StringifyArrayFrom(array, i + 1)
StringifyArray(array) == "[" \o StringifyArrayFrom(array, 1) \o "]"

IsArrayOp(name) == name \in {"$in", "$nin"}

RECURSIVE StringifyOpsFrom(_, _)
StringifyOpsFrom(ops, i) ==
    IF i > Len(ops) THEN ""
    ELSE (IF i > 1 THEN "," ELSE "") \o "\"" \o ops[i][1] \o "\":"
         \o (IF IsArrayOp(ops[i][1]) THEN StringifyArray(ops[i][2]) ELSE StringifyValue(ops[i][2]))
         \o StringifyOpsFrom(ops, i + 1)

StringifyQueryValue(qv) ==
    IF qv.isOp THEN "{" \o StringifyOpsFrom(qv.ops, 1) \o "}" ELSE StringifyValue(qv.lit)

RECURSIVE StringifyFrom(_, _)
StringifyFrom(query, i) ==
    IF i > Len(query) THEN ""
    ELSE (IF i > 1 THEN "," ELSE "") \o "\"" \o query[i].key \o "\":"
         \o StringifyQueryValue(query[i].value) \o StringifyFrom(query, i + 1)

\* JSON.stringify(query)
Stringify(query) == "{" \o StringifyFrom(query, 1) \o "}"

\* ------------------------------------------------------------ SonicDB

\* options.bTreeDegree || 2
bTreeDegree == 2

\* The mutable fields of a SonicDB, threaded through the methods below, with
\* its hooks and with fired, the callbacks the call has invoked so far.
This == [data |-> data, hashIndexes |-> hashIndexes, btreeIndexes |-> btreeIndexes,
         queryCache |-> queryCache, hooks |-> hooks, fired |-> <<>>,
         cacheEnabled |-> cacheEnabled, nesting |-> 0]

\* Map.get(value): undefined when the map has no such key
MapGet(map, value) == IF value \in DOMAIN map THEN Some(map[value]) ELSE None
\* Map.set(value, list)
MapSet(map, value, list) ==
    [v \in (DOMAIN map) \cup {value} |-> IF v = value THEN list ELSE map[v]]
\* Map.delete(value)
MapDelete(map, value) == [v \in (DOMAIN map) \ {value} |-> map[v]]
\* new Map()
EmptyMap == [v \in {} |-> <<>>]

\* indexList.filter(i => i !== numericalIndex)
RECURSIVE Without(_, _)
Without(list, x) ==
    IF list = <<>> THEN <<>>
    ELSE (IF Head(list) # x THEN <<Head(list)>> ELSE <<>>) \o Without(Tail(list), x)

\* typeof actualValue === 'number'
TypeIsValid(expectedType, actualValue) == expectedType = "Number" /\ actualValue \in Nat

\* _validate: TRUE when it returns, FALSE when it throws
_validate(doc) ==
    \A key \in DOMAIN Schema : HasOwn(doc, key) => TypeIsValid(Schema[key], doc[key])

\* the index list _checkUniqueness / _runQuery read for a value of an indexed field
IndexLookup(s, key, value) ==
    IF indexTypes[key] = "hash" THEN MapGet(s.hashIndexes[key], value)
    ELSE BTreeSearch(s.btreeIndexes[key], value)

\* _checkUniqueness that reads the hash indexes only
_checkUniqueness_HashOnly(s, doc, existingDocIndex) ==
    \A key \in uniqueKeys :
        (HasOwn(doc, key) /\ indexTypes[key] = "hash") =>
            LET indexList == MapGet(s.hashIndexes[key], doc[key]) IN
            IsSome(indexList) =>
                ~(\E i \in 1..Len(Get(indexList)) : Get(indexList)[i] # existingDocIndex)

\* _checkUniqueness: TRUE when it returns, FALSE when it throws
_checkUniqueness(s, doc, existingDocIndex) ==
    \A key \in uniqueKeys :
        HasOwn(doc, key) =>
            LET indexList == IndexLookup(s, key, doc[key]) IN
            IsSome(indexList) =>
                ~(\E i \in 1..Len(Get(indexList)) : Get(indexList)[i] # existingDocIndex)

\* the body of the loop of _addToIndexes for one indexed field
AddToIndex(s, key, doc, numericalIndex) ==
    IF ~HasOwn(doc, key) THEN s
    ELSE IF indexTypes[key] = "hash"
    THEN LET indexMap == s.hashIndexes[key]
             found == MapGet(indexMap, doc[key])
             indexList == IF IsSome(found) THEN Get(found) ELSE <<>>
         IN [s EXCEPT !.hashIndexes[key] = MapSet(indexMap, doc[key], Append(indexList, numericalIndex))]
    ELSE LET indexTree == s.btreeIndexes[key]
             found == BTreeSearch(indexTree, doc[key])
             indexList == IF IsSome(found) THEN Get(found) ELSE <<>>
         IN [s EXCEPT !.btreeIndexes[key] = BTreeInsert(indexTree, doc[key], Append(indexList, numericalIndex))]

\* the fields of indexTypes.keys(), in declaration order
IndexedFields == SelectSeq(FieldOrder, LAMBDA f : f \in DOMAIN indexTypes)

RECURSIVE AddToIndexesFrom(_, _, _, _)
AddToIndexesFrom(s, doc, numericalIndex, i) ==
    IF i > Len(IndexedFields) THEN s
    ELSE AddToIndexesFrom(AddToIndex(s, IndexedFields[i], doc, numericalIndex), doc, numericalIndex, i + 1)

_addToIndexes(s, doc, numericalIndex) == AddToIndexesFrom(s, doc, numericalIndex, 1)

\* ------------------------------------------------------------ QueryEngine

\* doc[key] in QueryEngine, which reads the field without asking whether the
\* document has it
ValueOf(doc, key) == IF key \in DOMAIN doc THEN doc[key] ELSE Undefined

\* QueryEngine.addToIndexes: for every indexed field, the slot is appended to
\* the list under doc[key]
addToIndexes(s, doc, numericalIndex) ==
    LET RECURSIVE From(_, _)
        From(h, i) ==
            IF i > Len(IndexedFields) THEN h
            ELSE LET key == IndexedFields[i]
                     value == ValueOf(doc, key)
                     found == IndexLookup(h, key, value)
                     indexList == Append(IF IsSome(found) THEN Get(found) ELSE <<>>, numericalIndex)
                 IN From(IF indexTypes[key] = "hash"
                         THEN [h EXCEPT !.hashIndexes[key] = MapSet(h.hashIndexes[key], value, indexList)]
                         ELSE [h EXCEPT !.btreeIndexes[key] = BTreeInsert(h.btreeIndexes[key], value, indexList)],
                         i + 1)
    IN From(s, 1)

\* QueryEngine.checkUniqueness: TRUE when it returns, FALSE when it throws
checkUniqueness(s, doc, existingDocIndex) ==
    \A key \in uniqueKeys :
        LET indexList == IndexLookup(s, key, ValueOf(doc, key)) IN
        IsSome(indexList) =>
            ~(\E i \in 1..Len(Get(indexList)) : Get(indexList)[i] # existingDocIndex)

RemoveFromIndex_KeepEmpty(s, key, doc, numericalIndex) ==
    IF ~HasOwn(doc, key) THEN s
    ELSE IF indexTypes[key] = "hash"
    THEN LET indexMap == s.hashIndexes[key]
             indexList == MapGet(indexMap, doc[key])
         IN IF ~IsSome(indexList) THEN s
            ELSE [s EXCEPT !.hashIndexes[key] =
                    MapSet(indexMap, doc[key], Without(Get(indexList), numericalIndex))]
    ELSE LET indexTree == s.btreeIndexes[key]
             indexList == BTreeSearch(indexTree, doc[key])
         IN IF ~IsSome(indexList) THEN s
            ELSE [s EXCEPT !.btreeIndexes[key] =
                    BTreeInsert(indexTree, doc[key], Without(Get(indexList), numericalIndex))]

\* the body of the loop of _removeFromIndexes for one indexed field
RemoveFromIndex(s, key, doc, numericalIndex) ==
    IF ~HasOwn(doc, key) THEN s
    ELSE IF indexTypes[key] = "hash"
    THEN LET indexMap == s.hashIndexes[key]
             indexList == MapGet(indexMap, doc[key])
             newList == Without(Get(indexList), numericalIndex)
         IN IF ~IsSome(indexList) THEN s
            ELSE IF Len(newList) > 0
            THEN [s EXCEPT !.hashIndexes[key] = MapSet(indexMap, doc[key], newList)]
            ELSE [s EXCEPT !.hashIndexes[key] = MapDelete(indexMap, doc[key])]
    ELSE LET indexTree == s.btreeIndexes[key]
             indexList == BTreeSearch(indexTree, doc[key])
             newList == Without(Get(indexList), numericalIndex)
         IN IF ~IsSome(indexList) THEN s
            ELSE IF Len(newList) > 0
            THEN [s EXCEPT !.btreeIndexes[key] = BTreeInsert(indexTree, doc[key], newList)]
            ELSE [s EXCEPT !.btreeIndexes[key] = BTreeDelete(indexTree, doc[key])]

RECURSIVE RemoveFromIndexesFrom(_, _, _, _)
RemoveFromIndexesFrom(s, doc, numericalIndex, i) ==
    IF i > Len(IndexedFields) THEN s
    ELSE RemoveFromIndexesFrom(RemoveFromIndex(s, IndexedFields[i], doc, numericalIndex), doc, numericalIndex, i + 1)

_removeFromIndexes(s, doc, numericalIndex) == RemoveFromIndexesFrom(s, doc, numericalIndex, 1)

\* ------------------------------------------------------ query execution

\* the switch with a default case that rejects the document
OpHolds_UnknownFails(op, opValue, docValue) ==
    CASE op = "$gt" -> IsSome(docValue) /\ Get(docValue) > opValue
      [] op = "$gte" -> IsSome(docValue) /\ Get(docValue) >= opValue
      [] op = "$lt" -> IsSome(docValue) /\ Get(docValue) < opValue
      [] op = "$lte" -> IsSome(docValue) /\ Get(docValue) <= opValue
      [] op = "$ne" -> ~IsSome(docValue) \/ Get(docValue) # opValue
      [] op = "$in" -> IsSome(docValue) /\ Includes(opValue, Get(docValue))
      [] op = "$nin" -> ~(IsSome(docValue) /\ Includes(opValue, Get(docValue)))
      [] OTHER -> FALSE

\* one operator of docMatchesQuery's switch; an unknown operator is ignored
OpHolds(op, opValue, docValue) ==
    CASE op = "$gt" -> IsSome(docValue) /\ Get(docValue) > opValue
      [] op = "$gte" -> IsSome(docValue) /\ Get(docValue) >= opValue
      [] op = "$lt" -> IsSome(docValue) /\ Get(docValue) < opValue
      [] op = "$lte" -> IsSome(docValue) /\ Get(docValue) <= opValue
      [] op = "$ne" -> ~IsSome(docValue) \/ Get(docValue) # opValue
      [] op = "$in" -> IsSome(docValue) /\ Includes(opValue, Get(docValue))
      [] op = "$nin" -> ~(IsSome(docValue) /\ Includes(opValue, Get(docValue)))
      [] OTHER -> TRUE

docMatchesQuery(doc, query) ==
    \A i \in 1..Len(query) :
        LET docValue == Field(doc, query[i].key)
            queryValue == query[i].value
        IN IF queryValue.isOp
           THEN \A j \in 1..Len(queryValue.ops) :
                    OpHolds(queryValue.ops[j][1], queryValue.ops[j][2], docValue)
           ELSE IsSome(docValue) /\ Get(docValue) = queryValue.lit

\* the operators, with $nin among those that make a field eligible
BtreeOperators_WithNin == {"$in", "$gt", "$gte", "$lt", "$lte", "$ne", "$nin"}

\* the operators that make a field with an ordered index eligible
BtreeOperators == {"$in", "$gt", "$gte", "$lt", "$lte", "$ne"}

RECURSIVE PickPath_NoOverride(_, _, _)
\* the loop with a hash-eligible field taken only when no path is chosen yet
PickPath_NoOverride(query, i, bestPath) ==
    IF i > Len(query) THEN bestPath
    ELSE LET key == query[i].key
             queryValue == query[i].value
             isOperatorObject == queryValue.isOp
         IN IF key \notin DOMAIN indexTypes THEN PickPath_NoOverride(query, i + 1, bestPath)
            ELSE IF indexTypes[key] = "hash"
            THEN IF (~isOperatorObject \/ IsSome(Op(queryValue, "$in"))) /\ ~IsSome(bestPath)
                 THEN Some([key |-> key, type |-> "hash",
                            operator |-> IF isOperatorObject THEN "$in" ELSE "exact"])
                 ELSE PickPath_NoOverride(query, i + 1, bestPath)
            ELSE IF (~isOperatorObject
                     \/ \E j \in 1..Len(queryValue.ops) : queryValue.ops[j][1] \in BtreeOperators)
                    /\ ~IsSome(bestPath)
                 THEN PickPath_NoOverride(query, i + 1, Some([key |-> key, type |-> "btree", operator |-> "range"]))
                 ELSE PickPath_NoOverride(query, i + 1, bestPath)

RECURSIVE PickPath_LastOrdered(_, _, _)
\* the loop without the test of bestPathRank: a later ordered-eligible field
\* replaces the one chosen
PickPath_LastOrdered(query, i, bestPath) ==
    IF i > Len(query) THEN bestPath
    ELSE LET key == query[i].key
             queryValue == query[i].value
             isOperatorObject == queryValue.isOp
         IN IF key \notin DOMAIN indexTypes THEN PickPath_LastOrdered(query, i + 1, bestPath)
            ELSE IF indexTypes[key] = "hash"
            THEN IF ~isOperatorObject \/ IsSome(Op(queryValue, "$in"))
                 THEN Some([key |-> key, type |-> "hash",
                            operator |-> IF isOperatorObject THEN "$in" ELSE "exact"])
                 ELSE PickPath_LastOrdered(query, i + 1, bestPath)
            ELSE IF ~isOperatorObject
                    \/ \E j \in 1..Len(queryValue.ops) : queryValue.ops[j][1] \in BtreeOperators
                 THEN PickPath_LastOrdered(query, i + 1, Some([key |-> key, type |-> "btree", operator |-> "range"]))
                 ELSE PickPath_LastOrdered(query, i + 1, bestPath)

RECURSIVE PickPath(_, _, _)
\* the path-selection loop of _runQuery from entry i, bestPath so far
PickPath(query, i, bestPath) ==
    IF i > Len(query) THEN bestPath
    ELSE LET key == query[i].key
             queryValue == query[i].value
             isOperatorObject == queryValue.isOp
         IN IF key \notin DOMAIN indexTypes THEN PickPath(query, i + 1, bestPath)
            ELSE IF indexTypes[key] = "hash"
            THEN IF ~isOperatorObject \/ IsSome(Op(queryValue, "$in"))
                 THEN Some([key |-> key, type |-> "hash",
                            operator |-> IF isOperatorObject THEN "$in" ELSE "exact"])
                 ELSE PickPath(query, i + 1, bestPath)
            ELSE IF (~isOperatorObject
                     \/ \E j \in 1..Len(queryValue.ops) : queryValue.ops[j][1] \in BtreeOperators)
                    /\ ~IsSome(bestPath)
                 THEN PickPath(query, i + 1, Some([key |-> key, type |-> "btree", operator |-> "range"]))
                 ELSE PickPath(query, i + 1, bestPath)

\* the access path _runQuery chooses for a non-empty query (nothing: full scan)
BestPath(query) == PickPath(query, 1, None)

\* candidateIndices.add(i) for every i of list: a Set keeps insertion order
RECURSIVE AddAll(_, _)
AddAll(candidates, list) ==
    IF list = <<>> THEN candidates
    ELSE AddAll(IF Includes(candidates, Head(list)) THEN candidates
                ELSE Append(candidates, Head(list)), Tail(list))

\* add the index list found for a value, if there is one
AddFound(candidates, found) == IF IsSome(found) THEN AddAll(candidates, Get(found)) ELSE candidates

RECURSIVE LookupEach(_, _, _, _, _)
\* for (const val of $in): add the index list of each element
LookupEach(s, key, array, i, candidates) ==
    IF i > Len(array) THEN candidates
    ELSE LookupEach(s, key, array, i + 1, AddFound(candidates, IndexLookup(s, key, array[i])))

RECURSIVE AddVisits(_, _, _, _)
\* the callback of indexTree.range: add the values of every visited key, but
\* for the key equal to skip (when there is one to skip)
AddVisits(candidates, visits, i, skip) ==
    IF i > Len(visits) THEN candidates
    ELSE AddVisits(IF IsSome(skip) /\ visits[i][1] = Get(skip) THEN candidates
                   ELSE AddAll(candidates, visits[i][2]), visits, i + 1, skip)

\* the candidate slots of the hash path
HashCandidates(s, bestPath, query) ==
    LET queryValue == QueryValue(query, bestPath.key) IN
    IF bestPath.operator = "$in"
    THEN LookupEach(s, bestPath.key, Get(Op(queryValue, "$in")), 1, <<>>)
    ELSE AddFound(<<>>, MapGet(s.hashIndexes[bestPath.key], queryValue.lit))

\* the candidate slots of the ordered path
BtreeCandidates(s, bestPath, query) ==
    LET indexTree == s.btreeIndexes[bestPath.key]
        queryValue == QueryValue(query, bestPath.key)
        exact == IF queryValue.isOp THEN None ELSE Some(queryValue.lit)
    IN IF IsSome(exact) /\ Truthy(Get(exact))
       THEN AddFound(<<>>, BTreeSearch(indexTree, Get(exact)))
       ELSE IF IsSome(Op(queryValue, "$in"))
       THEN LookupEach(s, bestPath.key, Get(Op(queryValue, "$in")), 1, <<>>)
       ELSE LET r == [gt |-> Op(queryValue, "$gt"), gte |-> Op(queryValue, "$gte"),
                      lt |-> Op(queryValue, "$lt"), lte |-> Op(queryValue, "$lte")]
                ranged == AddVisits(<<>>, BTreeRange(indexTree, r), 1, None)
            IN IF IsSome(Op(queryValue, "$ne"))
               THEN AddVisits(ranged, BTreeRange(indexTree, NoRange), 1, Op(queryValue, "$ne"))
               ELSE ranged

RECURSIVE LiveFrom_Break(_, _)
\* LiveFrom that leaves the loop at the first null slot
LiveFrom_Break(s, i) ==
    IF i >= Len(s.data) THEN <<>>
    ELSE IF IsSome(At(s.data, i)) THEN <<i>> \o LiveFrom_Break(s, i + 1) ELSE <<>>

\* every slot i < data.length with data[i] !== null, ascending
RECURSIVE LiveFrom(_, _)
LiveFrom(s, i) ==
    IF i >= Len(s.data) THEN <<>>
    ELSE (IF IsSome(At(s.data, i)) THEN <<i>> ELSE <<>>) \o LiveFrom(s, i + 1)

\* keep the candidates whose slot holds a document that matches the query
RECURSIVE Verified(_, _, _)
Verified(s, candidates, query) ==
    IF candidates = <<>> THEN <<>>
    ELSE LET doc == At(s.data, Head(candidates)) IN
         (IF IsSome(doc) /\ docMatchesQuery(Get(doc), query) THEN <<Head(candidates)>> ELSE <<>>)
         \o Verified(s, Tail(candidates), query)

\* the candidate slots of the chosen path; without a path, every live slot
Candidates(s, bestPath, query) ==
    IF IsSome(bestPath) /\ Get(bestPath).type = "hash"
    THEN HashCandidates(s, Get(bestPath), query)
    ELSE IF IsSome(bestPath) /\ Get(bestPath).type = "btree"
    THEN BtreeCandidates(s, Get(bestPath), query)
    ELSE LiveFrom(s, 0)

_runQuery(s, query) ==
    IF Len(query) = 0 THEN LiveFrom(s, 0)
    ELSE Verified(s, Candidates(s, BestPath(query), query), query)

\* JavaScript truthiness of an array or undefined: every array is truthy
TruthyArray(o) == IsSome(o)

\* _findIndices that takes a cached empty list for a miss
_findIndices_EmptyMiss(s, query) ==
    LET Cached(cacheKey, results) ==
            LET cachedResult == MapGet(s.queryCache, cacheKey) IN
            IF ~s.cacheEnabled THEN [s |-> s, indices |-> results, ran |-> TRUE]
            ELSE IF IsSome(cachedResult) /\ Len(Get(cachedResult)) > 0
            THEN [s |-> s, indices |-> Get(cachedResult), ran |-> FALSE]
            ELSE [s |-> [s EXCEPT !.queryCache = MapSet(s.queryCache, cacheKey, results)],
                  indices |-> results, ran |-> TRUE]
    IN Cached(Stringify(query), _runQuery(s, query))

\* _findIndices that uses the cache whether or not it is enabled
_findIndices_IgnoreFlag(s, query) ==
    LET Cached(cacheKey, results) ==
            LET cachedResult == MapGet(s.queryCache, cacheKey) IN
            IF TruthyArray(cachedResult)
            THEN [s |-> s, indices |-> Get(cachedResult), ran |-> FALSE]
            ELSE [s |-> [s EXCEPT !.queryCache = MapSet(s.queryCache, cacheKey, results)],
                  indices |-> results, ran |-> TRUE]
    IN Cached(Stringify(query), _runQuery(s, query))

\* _findIndices: the slot list returned, the SonicDB after the call, and ran,
\* whether the call invoked _runQuery
_findIndices(s, query) ==
    LET Cached(cacheKey, results) ==
            LET cachedResult == MapGet(s.queryCache, cacheKey) IN
            IF ~s.cacheEnabled THEN [s |-> s, indices |-> results, ran |-> TRUE]
            ELSE IF TruthyArray(cachedResult)
            THEN [s |-> s, indices |-> Get(cachedResult), ran |-> FALSE]
            ELSE [s |-> [s EXCEPT !.queryCache = MapSet(s.queryCache, cacheKey, results)],
                  indices |-> results, ran |-> TRUE]
    IN Cached(Stringify(query), _runQuery(s, query))

\* _findIndex: the first slot or -1
_findIndex(s, query) ==
    LET First(found) ==
            [s |-> found.s, index |-> IF Len(found.indices) > 0 THEN At(found.indices, 0) ELSE -1]
    IN First(_findIndices(s, query))

\* _invalidateCache that clears nothing
_invalidateCache_Off(s) == s

\* _invalidateCache
_invalidateCache(s) == IF s.cacheEnabled THEN [s EXCEPT !.queryCache = EmptyMap] ELSE s

\* ------------------------------------------------------------- CRUD

\* What a method call does: s, the SonicDB when the call ends; threw, the error
\* it throws ("" when it returns); count, the modifiedCount / deletedCount of
\* its result.
Returns(s, count) == [s |-> s, threw |-> "", count |-> count]
Throws(s, error) == [s |-> s, threw |-> error, count |-> 0]

\* fn(...args) inside try/catch: the callback is invoked with the count of the
\* outcome summary (none for a pre or a create hook) and sees the SonicDB as
\* it is at that moment; what it throws is caught and logged
Invoke(s, key, fn, count) ==
    [key |-> key, fn |-> fn.name, caught |-> fn.throws, count |-> count,
     data |-> s.data, hashIndexes |-> s.hashIndexes, btreeIndexes |-> s.btreeIndexes,
     queryCache |-> s.queryCache]

RECURSIVE create(_, _)
RECURSIVE updateOne(_, _, _)
RECURSIVE deleteOne(_, _)

\* the depth to which callbacks call the store from inside a hook, and the
\* number of documents beyond which a callback creates no more
MaxNesting == 1
MaxReenterDocs == 3

\* the body of a callback that calls the store: fn.does is the call it makes,
\* behind the callback's own guards against calling itself without end; the
\* SonicDB is as that call leaves it, and what the call throws the callback
\* throws, to be caught by _runHooks
Reenter(s, fn) ==
    IF fn.does = <<>> \/ s.nesting >= MaxNesting THEN s
    ELSE LET inside == [s EXCEPT !.nesting = s.nesting + 1]
             Done(r) == [r.s EXCEPT !.nesting = s.nesting]
         IN IF fn.does[1] = "create"
            THEN IF Len(s.data) < MaxReenterDocs THEN Done(create(inside, fn.does[2])) ELSE s
            ELSE IF fn.does[1] = "deleteOne" THEN Done(deleteOne(inside, fn.does[2]))
            ELSE Done(updateOne(inside, fn.does[2], fn.does[3]))

RECURSIVE RunFrom_StopAtThrow(_, _, _, _, _)
\* the loop of _runHooks, left when a callback throws
RunFrom_StopAtThrow(s, fns, key, count, i) ==
    IF i >= Len(fns) THEN s
    ELSE LET invoked == Reenter([s EXCEPT !.fired = Append(s.fired, Invoke(s, key, At(fns, i), count))],
                                At(fns, i))
         IN IF At(fns, i).throws THEN invoked
            ELSE RunFrom_StopAtThrow(invoked, fns, key, count, i + 1)

RECURSIVE RunFrom(_, _, _, _, _)
\* the loop of _runHooks from callback i
RunFrom(s, fns, key, count, i) ==
    IF i >= Len(fns) THEN s
    ELSE RunFrom(Reenter([s EXCEPT !.fired = Append(s.fired, Invoke(s, key, At(fns, i), count))],
                         At(fns, i)),
                 fns, key, count, i + 1)

\* _runHooks(key, ...args)
_runHooks(s, key, count) ==
    LET fns == MapGet(s.hooks, key) IN
    IF IsSome(fns) THEN RunFrom(s, Get(fns), key, count, 0) ELSE s

\* pre(event, fn) and post(event, fn): the hooks after the registration
Register(h, key, fn) ==
    MapSet(h, key, Append(IF key \in DOMAIN h THEN h[key] ELSE <<>>, fn))

\* create that pushes the document before it checks uniqueness
create_PushFirst(s, doc) ==
    IF ~_validate(doc) THEN Throws(s, "schema")
    ELSE LET newIndex == Len(s.data)
             pushed == [s EXCEPT !.data = Append(s.data, Some(doc))]
         IN IF ~_checkUniqueness(s, doc, -1) THEN Throws(pushed, "unique")
            ELSE Returns(_invalidateCache(_addToIndexes(pushed, doc, newIndex)), 1)

\* create that puts the document into the lowest null slot when there is one
create_Reuse(s, doc) ==
    IF ~_validate(doc) THEN Throws(s, "schema")
    ELSE IF ~_checkUniqueness(s, doc, -1) THEN Throws(s, "unique")
    ELSE LET free == {i \in 0..(Len(s.data) - 1) : ~IsSome(At(s.data, i))}
             newIndex == IF free = {} THEN Len(s.data)
                         ELSE CHOOSE i \in free : \A j \in free : i <= j
             pushed == [s EXCEPT !.data = IF free = {} THEN Append(s.data, Some(doc))
                                          ELSE SetAt(s.data, newIndex, Some(doc))]
         IN Returns(_invalidateCache(_addToIndexes(pushed, doc, newIndex)), 1)

\* create that takes the new slot before the pre hooks run
create_StaleIndex(s, doc) ==
    LET Run(h) ==
            IF ~_validate(doc) THEN Throws(h, "schema")
            ELSE IF ~_checkUniqueness(h, doc, -1) THEN Throws(h, "unique")
            ELSE LET newIndex == Len(s.data)
                     pushed == [h EXCEPT !.data = Append(h.data, Some(doc))]
                 IN Returns(_runHooks(_invalidateCache(_addToIndexes(pushed, doc, newIndex)),
                                      "post:create", None), 1)
    IN Run(_runHooks(s, "pre:create", None))

create(s, doc) ==
    LET Run(h) ==
            IF ~_validate(doc) THEN Throws(h, "schema")
            ELSE IF ~_checkUniqueness(h, doc, -1) THEN Throws(h, "unique")
            ELSE LET newIndex == Len(h.data)
                     pushed == [h EXCEPT !.data = Append(h.data, Some(doc))]
                 IN Returns(_runHooks(_invalidateCache(_addToIndexes(pushed, doc, newIndex)),
                                      "post:create", None), 1)
    IN Run(_runHooks(s, "pre:create", None))

RECURSIVE LoadFrom(_, _, _)
\* the loop of loadData from i
LoadFrom(s, dataArray, i) ==
    IF i >= Len(dataArray) THEN s
    ELSE LET doc == At(dataArray, i)
             pushed == [s EXCEPT !.data = Append(s.data, Some(doc))]
         IN LoadFrom(_addToIndexes(pushed, doc, i), dataArray, i + 1)

\* loadData that empties the slot array but not the indexes
loadData_KeepIndexes(s, dataArray) ==
    LET cleared == [s EXCEPT !.data = <<>>]
    IN Returns(_invalidateCache(LoadFrom(cleared, dataArray, 0)), Len(dataArray))

loadData(s, dataArray) ==
    LET cleared == [s EXCEPT
                      !.data = <<>>,
                      !.hashIndexes = [f \in DOMAIN s.hashIndexes |-> EmptyMap],
                      !.btreeIndexes = [f \in DOMAIN s.btreeIndexes |-> NewBTree(bTreeDegree)]]
    IN Returns(_invalidateCache(LoadFrom(cleared, dataArray, 0)), Len(dataArray))

\* the replacement of the document at index by its merge with update
ReplaceAt(s, index, update) ==
    LET oldDoc == Get(At(s.data, index))
        newDoc == Merge(oldDoc, update)
        Store(removed) ==
            _addToIndexes([removed EXCEPT !.data = SetAt(removed.data, index, Some(newDoc))],
                          newDoc, index)
    IN Store(_removeFromIndexes(s, oldDoc, index))

updateOne(s, query, update) ==
    LET Update(found) ==
            LET indexToUpdate == found.index IN
            IF indexToUpdate = -1 THEN Returns(_runHooks(found.s, "post:update", Some(0)), 0)
            ELSE IF ~_validate(update) THEN Throws(found.s, "schema")
            ELSE IF ~_checkUniqueness(found.s, update, indexToUpdate) THEN Throws(found.s, "unique")
            ELSE Returns(_runHooks(_invalidateCache(ReplaceAt(found.s, indexToUpdate, update)),
                                   "post:update", Some(1)), 1)
    IN Update(_findIndex(_runHooks(s, "pre:update", None), query))

RECURSIVE UpdateEach_Abort(_, _, _, _, _)
\* the loop of updateMany, ended by the first uniqueness violation
UpdateEach_Abort(s, indicesToUpdate, update, i, modifiedCount) ==
    IF i >= Len(indicesToUpdate) THEN [s |-> s, modifiedCount |-> modifiedCount]
    ELSE LET index == At(indicesToUpdate, i) IN
         IF ~_checkUniqueness(s, update, index)
         THEN [s |-> s, modifiedCount |-> modifiedCount]
         ELSE UpdateEach_Abort(ReplaceAt(s, index, update), indicesToUpdate, update, i + 1, modifiedCount + 1)

RECURSIVE UpdateEach(_, _, _, _, _)
\* the loop of updateMany from position i: a document whose update fails the
\* uniqueness check is skipped
UpdateEach(s, indicesToUpdate, update, i, modifiedCount) ==
    IF i >= Len(indicesToUpdate) THEN [s |-> s, modifiedCount |-> modifiedCount]
    ELSE LET index == At(indicesToUpdate, i) IN
         IF ~_checkUniqueness(s, update, index)
         THEN UpdateEach(s, indicesToUpdate, update, i + 1, modifiedCount)
         ELSE UpdateEach(ReplaceAt(s, index, update), indicesToUpdate, update, i + 1, modifiedCount + 1)

\* updateMany that clears the cache whatever modifiedCount is
updateMany_AlwaysClear(s, query, update) ==
    LET Finish(done) == Returns(_invalidateCache(done.s), done.modifiedCount)
        Update(found) ==
            LET indicesToUpdate == found.indices IN
            IF Len(indicesToUpdate) = 0 THEN Returns(found.s, 0)
            ELSE Finish(UpdateEach(found.s, indicesToUpdate, update, 0, 0))
    IN IF ~_validate(update) THEN Throws(s, "schema")
       ELSE Update(_findIndices(s, query))

\* updateMany that runs no post hook when no slot was found
updateMany_QuietMiss(s, query, update) ==
    LET Finish(done) ==
            Returns(_runHooks(IF done.modifiedCount > 0 THEN _invalidateCache(done.s) ELSE done.s,
                              "post:update", Some(done.modifiedCount)),
                    done.modifiedCount)
        Update(found) ==
            LET indicesToUpdate == found.indices IN
            IF Len(indicesToUpdate) = 0 THEN Returns(found.s, 0)
            ELSE Finish(UpdateEach(found.s, indicesToUpdate, update, 0, 0))
        Run(h) ==
            IF ~_validate(update) THEN Throws(h, "schema")
            ELSE Update(_findIndices(h, query))
    IN Run(_runHooks(s, "pre:update", None))

updateMany(s, query, update) ==
    LET Finish(done) ==
            Returns(_runHooks(IF done.modifiedCount > 0 THEN _invalidateCache(done.s) ELSE done.s,
                              "post:update", Some(done.modifiedCount)),
                    done.modifiedCount)
        Update(found) ==
            LET indicesToUpdate == found.indices IN
            IF Len(indicesToUpdate) = 0 THEN Returns(_runHooks(found.s, "post:update", Some(0)), 0)
            ELSE Finish(UpdateEach(found.s, indicesToUpdate, update, 0, 0))
        Run(h) ==
            IF ~_validate(update) THEN Throws(h, "schema")
            ELSE Update(_findIndices(h, query))
    IN Run(_runHooks(s, "pre:update", None))

\* the removal of the document's slot alone, its index entries kept
TombstoneAt_KeepIndex(s, index) == [s EXCEPT !.data = SetAt(s.data, index, None)]

\* the removal of the document at index: its index entries, then its slot
TombstoneAt(s, index) ==
    LET Clear(removed) == [removed EXCEPT !.data = SetAt(removed.data, index, None)]
    IN Clear(_removeFromIndexes(s, Get(At(s.data, index)), index))

deleteOne(s, query) ==
    LET Delete(found) ==
            LET indexToDelete == found.index IN
            IF indexToDelete = -1 THEN Returns(_runHooks(found.s, "post:delete", Some(0)), 0)
            ELSE Returns(_runHooks(_invalidateCache(TombstoneAt(found.s, indexToDelete)),
                                   "post:delete", Some(1)), 1)
    IN Delete(_findIndex(_runHooks(s, "pre:delete", None), query))

RECURSIVE DeleteEach(_, _, _)
\* the loop of deleteMany from position i
DeleteEach(s, indicesToDelete, i) ==
    IF i >= Len(indicesToDelete) THEN s
    ELSE DeleteEach(TombstoneAt(s, At(indicesToDelete, i)), indicesToDelete, i + 1)

deleteMany(s, query) ==
    LET Delete(found) ==
            LET indicesToDelete == found.indices IN
            IF Len(indicesToDelete) = 0 THEN Returns(_runHooks(found.s, "post:delete", Some(0)), 0)
            ELSE Returns(_runHooks(_invalidateCache(DeleteEach(found.s, indicesToDelete, 0)),
                                   "post:delete", Some(Len(indicesToDelete))),
                         Len(indicesToDelete))
    IN Delete(_findIndices(_runHooks(s, "pre:delete", None), query))

\* find: the documents at the slots found (a null slot is filtered out)
find(s, query) == _findIndices(s, query)

RECURSIVE DocsAt(_, _)
\* indices.map(index => data[index]).filter(doc => doc !== null)
DocsAt(s, indices) ==
    IF indices = <<>> THEN <<>>
    ELSE (IF IsSome(At(s.data, Head(indices))) THEN <<Get(At(s.data, Head(indices)))>> ELSE <<>>)
         \o DocsAt(s, Tail(indices))

\* ------------------------------------------------- stand-alone OrderedIndex

Keys == 1..MaxKey
\* values are slot lists, as in the store's indexes; every third key is
\* written with either of two values, the others always with the same one
Vals(k) == IF k % 3 = 0 THEN {<<0>>, <<1>>} ELSE {<<k % 2>>}

\* new SonicDB({schema, indexOn, enableQueryCache})
NewSonicDB(config, enableQueryCache) ==
    /\ indexTypes = config.types
    /\ uniqueKeys = config.unique
    /\ cacheEnabled = enableQueryCache
    /\ data = <<>>
    /\ hashIndexes = [f \in {g \in DOMAIN config.types : config.types[g] = "hash"} |-> EmptyMap]
    /\ btreeIndexes = [f \in {g \in DOMAIN config.types : config.types[g] = "btree"} |-> NewBTree(bTreeDegree)]
    /\ queryCache = EmptyMap
    /\ hooks = EmptyMap

\* the indexOn options tried
IndexConfigs ==
    {[types |-> [a |-> "hash", b |-> "btree"], unique |-> {"a"}],
     [types |-> [a |-> "btree", b |-> "hash"], unique |-> {"a"}]}

\* the degrees the constructor is called with
DegreeArgs == 0..MaxDegree

TreeInit ==
    /\ \E t \in DegreeArgs :
          LET r == BTreeConstructor(t) IN r.threw = "" /\ tree = Get(r.tree)
    /\ written = [k \in Keys |-> None]
    /\ walk = Idle
    /\ NewSonicDB(CHOOSE c \in IndexConfigs : TRUE, TRUE)

TreeInsertCall(k, v) ==
    /\ tree' = BTreeInsert(tree, k, v)
    /\ written' = [written EXCEPT ![k] = Some(v)]
    /\ UNCHANGED <<walk, configVars, storeVars, hookVars>>

TreeDeleteCall(k) ==
    /\ tree' = BTreeDelete(tree, k)
    /\ written' = [written EXCEPT ![k] = None]
    /\ UNCHANGED <<walk, configVars, storeVars, hookVars>>

TreeNext ==
    \/ \E k \in Keys : \E v \in Vals(k) : TreeInsertCall(k, v)
    \/ \E k \in Keys : TreeDeleteCall(k)

SpecTree == TreeInit /\ [][TreeNext]_vars

\* the same calls, each key always written with the same slot list
RangeNext ==
    \/ \E k \in 1..MaxRangeKey : TreeInsertCall(k, <<k % 2>>)
    \/ \E k \in 1..MaxRangeKey : TreeDeleteCall(k)

SpecRange == TreeInit /\ [][RangeNext]_vars

\* the calls of the OrderedIndex one node at a time: a call begins at the
\* root, each step is one pass of its loop or one recursive call, and the
\* tree is as the call leaves it when the call returns
WalkOps == {"search", "insert", "delete", "range"}
\* the keys the calls are made with
MaxWalkKey == 5

Begin(op, k) ==
    /\ walk = Idle
    /\ walk' = [op |-> op, key |-> k, value |-> <<k % 2>>, seek |-> k, at |-> <<tree.root>>]
    /\ UNCHANGED <<tree, written, configVars, storeVars, hookVars>>

Return(after, w) ==
    /\ walk' = Idle
    /\ tree' = after
    /\ written' = w
    /\ UNCHANGED <<configVars, storeVars, hookVars>>

Continue(at, seek) ==
    /\ walk' = [walk EXCEPT !.at = at, !.seek = seek]
    /\ UNCHANGED <<tree, written, configVars, storeVars, hookVars>>

SearchStep ==
    /\ walk.op = "search"
    /\ LET n == Head(walk.at)
           idx == findChildIndex(n, walk.key)
       IN IF (idx < Len(n.keys) /\ walk.key = At(n.keys, idx)) \/ n.leaf
          THEN Return(tree, written)
          ELSE Continue(<<At(n.children, idx)>>, walk.key)

InsertStep ==
    /\ walk.op = "insert"
    /\ LET p == ProbeStep(Head(walk.at), walk.key)
           r == tree.root
           newRoot == [keys |-> <<>>, values |-> <<>>, children |-> <<r>>, leaf |-> FALSE]
       IN IF p.found
          THEN Return(BTreeInsert(tree, walk.key, walk.value),
                      [written EXCEPT ![walk.key] = Some(walk.value)])
          ELSE IF IsSome(p.current) THEN Continue(<<Get(p.current)>>, walk.key)
          ELSE /\ walk' = [walk EXCEPT !.op = "insertNonFull",
                                       !.at = <<IF Len(r.keys) = (2 * tree.t) - 1
                                                THEN _splitChild(newRoot, 0, tree.t) ELSE r>>]
               /\ UNCHANGED <<tree, written, configVars, storeVars, hookVars>>

InsertNonFullStep ==
    /\ walk.op = "insertNonFull"
    /\ LET n == Head(walk.at)
       IN IF n.leaf
          THEN Return(BTreeInsert(tree, walk.key, walk.value),
                      [written EXCEPT ![walk.key] = Some(walk.value)])
          ELSE Continue(<<InsertDescent(n, walk.key, tree.t)>>, walk.key)

DeleteStep ==
    /\ walk.op = "delete"
    /\ LET d == NextDescent(Head(walk.at), walk.seek, tree.t)
       IN IF IsSome(d) THEN Continue(<<Entered(Get(d))>>, Get(d).key)
          ELSE Return(BTreeDelete(tree, walk.key), [written EXCEPT ![walk.key] = None])

RangeStep ==
    /\ walk.op = "range"
    /\ LET rest == RangeDescents(Head(walk.at), [NoRange EXCEPT !.gte = Some(walk.key)])
                   \o Tail(walk.at)
       IN IF rest = <<>> THEN Return(tree, written) ELSE Continue(rest, walk.key)

WalkStep == SearchStep \/ InsertStep \/ InsertNonFullStep \/ DeleteStep \/ RangeStep

WalkNext ==
    \/ \E op \in WalkOps, k \in 1..MaxWalkKey : Begin(op, k)
    \/ WalkStep

\* a call that has begun runs on: nothing else runs while it does
SpecWalk == TreeInit /\ [][WalkNext]_vars /\ WF_vars(WalkStep)

\* ------------------------------------------------------- the store's calls

\* single-field queries
Q1(f, qv) == <<[key |-> f, value |-> qv]>>
\* two-field queries
Q2(f, qv, g, qw) == <<[key |-> f, value |-> qv], [key |-> g, value |-> qw]>>

\* the queries the mutating calls and find are called with
CallQueries ==
    {<<>>,
     Q1("a", Lit(0)), Q1("a", Lit(1)), Q1("b", Lit(1)),
     Q1("b", Ops(<<<<"$gte", 0>>>>)), Q1("b", Ops(<<<<"$ne", 0>>>>)),
     Q1("a", Ops(<<<<"$in", <<0, 1>>>>>>)),
     Q2("b", Lit(0), "a", Ops(<<<<"$lt", 1>>>>))}

\* the documents create is called with: every document over the numbers, and
\* those with one field of another kind
CallDocs == Docs \cup {d \in AnyDocs : \E f \in Fields : DOMAIN d = {f}}

\* the patches updateOne and updateMany are called with: at most one field
CallPatches == {d \in AnyDocs : Cardinality(DOMAIN d) <= 1}

\* the documents of the arrays loadData is called with: those with field a
LoadDocs == {d \in Docs : HasOwn(d, "a")}

\* the arrays loadData is called with
RECURSIVE ArraysOf(_, _)
ArraysOf(S, n) ==
    IF n = 0 THEN {<<>>}
    ELSE ArraysOf(S, n - 1) \cup {Append(arr, x) : arr \in {y \in ArraysOf(S, n - 1) : Len(y) = n - 1}, x \in S}
LoadArrays == ArraysOf(LoadDocs, MaxLoad)

\* the call's effect on the SonicDB; the result cache is bounded by MaxCache
Apply(r) ==
    /\ Cardinality(DOMAIN r.s.queryCache) <= MaxCache
    /\ data' = r.s.data
    /\ hashIndexes' = r.s.hashIndexes
    /\ btreeIndexes' = r.s.btreeIndexes
    /\ queryCache' = r.s.queryCache
    /\ UNCHANGED <<configVars, treeVars, hookVars>>

Create(doc) == Len(data) < MaxDocs /\ Apply(create(This, doc))
LoadData(dataArray) == Apply(loadData(This, dataArray))
Find(query) == Apply(find(This, query))
FindOne(query) == Apply(_findIndex(This, query))
UpdateOne(query, update) == Apply(updateOne(This, query, update))
UpdateMany(query, update) == Apply(updateMany(This, query, update))
DeleteOne(query) == Apply(deleteOne(This, query))
DeleteMany(query) == Apply(deleteMany(This, query))

Init ==
    /\ tree = NewBTree(2)
    /\ written = [k \in Keys |-> None]
    /\ walk = Idle
    /\ \E config \in IndexConfigs : NewSonicDB(config, TRUE)

CrudNext ==
    \/ \E doc \in CallDocs : Create(doc)
    \/ \E query \in CallQueries : Find(query)
    \/ \E query \in CallQueries : FindOne(query)
    \/ \E query \in CallQueries, update \in CallPatches : UpdateOne(query, update)
    \/ \E query \in CallQueries, update \in CallPatches : UpdateMany(query, update)
    \/ \E query \in CallQueries : DeleteOne(query)
    \/ \E query \in CallQueries : DeleteMany(query)

Next ==
    \/ CrudNext
    \/ \E dataArray \in LoadArrays : LoadData(dataArray)

\* the store constructed with enableQueryCache as given or false
CacheInit ==
    /\ tree = NewBTree(2)
    /\ written = [k \in Keys |-> None]
    /\ walk = Idle
    /\ \E config \in IndexConfigs, enableQueryCache \in BOOLEAN :
          NewSonicDB(config, enableQueryCache)

SpecCache == CacheInit /\ [][Next]_vars

\* every call of the store
Spec == Init /\ [][Next]_vars

\* every call but loadData
SpecCrud == Init /\ [][CrudNext]_vars

\* ------------------------------------------------------ the calls with hooks

HookEvents == {"create", "update", "delete"}
\* `pre:${event}` and `post:${event}`
PreKey(event) == "pre:" \o event
PostKey(event) == "post:" \o event

\* the callbacks registered: f returns, g throws
Callbacks ==
    {[name |-> "f", throws |-> FALSE, does |-> <<>>],
     [name |-> "g", throws |-> TRUE, does |-> <<>>]}

RECURSIVE CountIn(_, _)
\* the number of callbacks h holds under the keys of S
CountIn(h, S) ==
    IF S = {} THEN 0
    ELSE LET key == CHOOSE k \in S : TRUE IN Len(h[key]) + CountIn(h, S \ {key})

\* the number of callbacks registered
Registered == CountIn(hooks, DOMAIN hooks)

Pre(event, fn) ==
    /\ Registered < MaxHooks
    /\ hooks' = Register(hooks, PreKey(event), fn)
    /\ UNCHANGED <<configVars, storeVars, treeVars>>

Post(event, fn) ==
    /\ Registered < MaxHooks
    /\ hooks' = Register(hooks, PostKey(event), fn)
    /\ UNCHANGED <<configVars, storeVars, treeVars>>

\* the documents, patches and queries of the calls made with hooks
HookDocs == {[a |-> 0], [a |-> 1], [a |-> NotANumber]}
HookPatches == {[a |-> 1], [b |-> 1], [b |-> NotANumber]}
HookQueries == {<<>>, Q1("a", Lit(0)), Q1("b", Lit(1))}

HooksInit ==
    /\ tree = NewBTree(2)
    /\ written = [k \in Keys |-> None]
    /\ walk = Idle
    /\ NewSonicDB([types |-> [a |-> "hash", b |-> "btree"], unique |-> {"a"}], TRUE)

HooksNext ==
    \/ \E event \in HookEvents, fn \in Callbacks : Pre(event, fn)
    \/ \E event \in HookEvents, fn \in Callbacks : Post(event, fn)
    \/ \E doc \in HookDocs : Create(doc)
    \/ \E query \in HookQueries, update \in HookPatches : UpdateOne(query, update)
    \/ \E query \in HookQueries, update \in HookPatches : UpdateMany(query, update)
    \/ \E query \in HookQueries : DeleteOne(query)
    \/ \E query \in HookQueries : DeleteMany(query)

SpecHooks == HooksInit /\ [][HooksNext]_vars

\* ------------------------------- the calls with hooks that call the store

\* callbacks that call the store: c creates a document, d deletes one, and u
\* updates one and then throws
ReentrantCallbacks ==
    {[name |-> "c", throws |-> FALSE, does |-> <<"create", [b |-> 1]>>],
     [name |-> "d", throws |-> FALSE, does |-> <<"deleteOne", Q1("b", Lit(1))>>],
     [name |-> "u", throws |-> TRUE, does |-> <<"updateOne", <<>>, [b |-> 0]>>]}

\* the documents, patches and queries of the calls made from outside
ReenterDocs == {[a |-> 0, b |-> 1], [b |-> 0]}
ReenterPatches == {[b |-> 1]}
ReenterQueries == {<<>>, Q1("b", Lit(1))}

ReenterNext ==
    \/ \E event \in HookEvents, fn \in ReentrantCallbacks : Pre(event, fn)
    \/ \E event \in HookEvents, fn \in ReentrantCallbacks : Post(event, fn)
    \/ \E doc \in ReenterDocs : Create(doc)
    \/ \E query \in ReenterQueries : Find(query)
    \/ \E query \in ReenterQueries, update \in ReenterPatches : UpdateOne(query, update)
    \/ \E query \in ReenterQueries, update \in ReenterPatches : UpdateMany(query, update)
    \/ \E query \in ReenterQueries : DeleteOne(query)
    \/ \E query \in ReenterQueries : DeleteMany(query)

SpecReenter == HooksInit /\ [][ReenterNext]_vars

\* -------------------------------------------- the calls that use the planner

\* the indexOn options tried: each field with a hash index, an ordered index
\* or none, no field unique
PlanConfigs ==
    {[types |-> types, unique |-> {}] :
        types \in UNION {[fs -> {"hash", "btree"}] : fs \in SUBSET Fields}}

\* the documents, and the queries of the calls that change the cache
PlanDocs == {<<>>, [a |-> 0, b |-> 1], [a |-> 1, b |-> 0], [b |-> 0]}
PlanCalls ==
    {<<>>, Q1("b", Lit(0)), Q1("a", Ops(<<<<"$ne", 0>>>>)),
     Q1("b", Ops(<<<<"$regex", 0>>>>)),
     Q2("b", Ops(<<<<"$gte", 0>>>>), "a", Lit(1))}

PlanInit ==
    /\ tree = NewBTree(2)
    /\ written = [k \in Keys |-> None]
    /\ walk = Idle
    /\ \E config \in PlanConfigs : NewSonicDB(config, TRUE)

PlanNext ==
    \/ \E doc \in PlanDocs : Create(doc)
    \/ \E query \in PlanCalls : Find(query)
    \/ \E query \in PlanCalls : DeleteOne(query)

SpecPlan == PlanInit /\ [][PlanNext]_vars

\* ----------------------------------------------- the calls of QueryEngine

\* the write path of the store over QueryEngine: checkUniqueness, append to
\* the data, addToIndexes; a uniqueness violation leaves everything as it was
EngineCreate(doc) ==
    /\ Len(data) < MaxDocs
    /\ checkUniqueness(This, doc, -1)
    /\ LET s == addToIndexes([This EXCEPT !.data = Append(data, Some(doc))], doc, Len(data))
       IN /\ data' = s.data
          /\ hashIndexes' = s.hashIndexes
          /\ btreeIndexes' = s.btreeIndexes
    /\ UNCHANGED <<queryCache, configVars, treeVars, hookVars>>

EngineInit ==
    /\ tree = NewBTree(2)
    /\ written = [k \in Keys |-> None]
    /\ walk = Idle
    /\ \E config \in IndexConfigs : NewSonicDB(config, TRUE)

EngineNext == \E doc \in Docs : EngineCreate(doc)

SpecEngine == EngineInit /\ [][EngineNext]_vars

\* --------------------------------------------- OrderedIndex: what is checked

RECURSIVE InOrder(_)
\* in-order traversal: the keys of the subtree, children and keys interleaved
RECURSIVE InOrderFrom(_, _)
InOrderFrom(n, i) ==
    IF i > Len(n.keys) THEN <<>>
    ELSE (IF ~n.leaf /\ i < Len(n.children) THEN InOrder(At(n.children, i)) ELSE <<>>)
         \o (IF i < Len(n.keys) THEN <<At(n.keys, i)>> ELSE <<>>)
         \o InOrderFrom(n, i + 1)
InOrder(n) == InOrderFrom(n, 0)

StrictlyAscending(s) == \A i \in 1..(Len(s) - 1) : s[i] < s[i + 1]

RECURSIVE LeafDepths(_, _)
\* the depths at which the leaves of the subtree sit
LeafDepths(n, d) ==
    IF n.leaf THEN {d}
    ELSE UNION {LeafDepths(n.children[i], d + 1) : i \in 1..Len(n.children)}

Height(n) == CHOOSE d \in LeafDepths(n, 1) : \A e \in LeafDepths(n, 1) : e <= d

RECURSIVE NodesBelow(_)
\* every node strictly below n
NodesBelow(n) ==
    IF n.leaf THEN {}
    ELSE UNION {{n.children[i]} \cup NodesBelow(n.children[i]) : i \in 1..Len(n.children)}

StoredKeys == {k \in Keys : IsSome(written[k])}

\* C5: search(k) is the value of the last insert of k not followed by a delete
SearchIsLastWritten == \A k \in Keys : BTreeSearch(tree, k) = written[k]

\* C5 witness: a three-level tree holding an overwritten key, with a key deleted
SearchWitness ==
    /\ Height(tree.root) = 3
    /\ \E k \in Keys : k % 3 = 0 /\ written[k] = Some(<<1>>)
    /\ Cardinality(StoredKeys) < MaxKey

\* the visits a linear scan over the stored keys makes for the bounds r
LinearScan(r) ==
    {<<k, Get(written[k])>> : k \in {j \in StoredKeys : ~tooSmall(r, j) /\ ~tooLarge(r, j)}}

OptKeys == {None} \cup {Some(k) : k \in 1..MaxRangeKey}
\* the ways to give an exclusive and an inclusive bound on one side
BoundPairs ==
    {<<a, b>> \in OptKeys \X OptKeys :
        IsSome(a) /\ IsSome(b) => (Get(a) - Get(b)) \in (-MaxBoundGap)..MaxBoundGap}
RangeArgs ==
    {[gt |-> lo[1], gte |-> lo[2], lt |-> hi[1], lte |-> hi[2]] : lo \in BoundPairs, hi \in BoundPairs}

Visits(r) == BTreeRange(tree, r)

\* C6: range(bounds, visit) visits exactly the stored keys within the bounds,
\* each once and with its value, for every combination of bounds
RangeMatchesLinearScan ==
    \A r \in RangeArgs :
        LET visits == Visits(r)
            scan == LinearScan(r)
        IN /\ {visits[i] : i \in 1..Len(visits)} = scan
           /\ Len(visits) = Cardinality(scan)

\* C6 witness: a two-level tree of three keys (so one left by a delete), where
\* bounds on both sides select the root's key alone
RangeWitness ==
    /\ Height(tree.root) = 2
    /\ Cardinality(StoredKeys) = 3
    /\ \E r \in RangeArgs :
          /\ IsSome(r.gt) /\ IsSome(r.lte)
          /\ Visits(r) = <<<<At(tree.root.keys, 0), At(tree.root.values, 0)>>>>

\* C7: in-order traversal is strictly ascending (so without duplicates) and
\* every leaf is at the same depth
OrderedAndBalanced ==
    /\ StrictlyAscending(InOrder(tree.root))
    /\ Cardinality(LeafDepths(tree.root, 1)) = 1

\* C7 witness: a three-level tree from which a key has been deleted
OrderedWitness ==
    /\ Height(tree.root) = 3
    /\ Cardinality(StoredKeys) = MaxKey - 1
    /\ Len(InOrder(tree.root)) = MaxKey - 1

\* C8: node sizes: t-1..2t-1 keys below the root, at most 2t-1 in the root,
\* as many values as keys, and keys+1 children in an internal node
NodeShape(n) ==
    /\ Len(n.keys) <= (2 * tree.t) - 1
    /\ Len(n.values) = Len(n.keys)
    /\ ~n.leaf => Len(n.children) = Len(n.keys) + 1

NodeSizes ==
    /\ NodeShape(tree.root)
    /\ \A n \in NodesBelow(tree.root) : NodeShape(n) /\ Len(n.keys) >= tree.t - 1

\* C8 witness: degree 3, two levels, a leaf at the minimum t-1 keys beside a
\* leaf with more, after a delete
NodeSizesWitness ==
    /\ tree.t = 3
    /\ Height(tree.root) = 2
    /\ Cardinality(StoredKeys) < MaxKey
    /\ \E n \in NodesBelow(tree.root) : Len(n.keys) = tree.t - 1
    /\ \E n \in NodesBelow(tree.root) : Len(n.keys) > tree.t

\* ---------------------------------------------------- SonicDB: what is checked

\* the elements of a sequence
Elems(seq) == {seq[i] : i \in 1..Len(seq)}
NoDuplicates(seq) == Cardinality(Elems(seq)) = Len(seq)

\* the slots that hold a document
LiveSlots == {i \in 0..(Len(data) - 1) : IsSome(At(data, i))}
DocAt(i) == Get(At(data, i))
Tombstones == {i \in 0..(Len(data) - 1) : ~IsSome(At(data, i))}

\* the live slots whose document the predicate evaluator accepts: a full scan
LiveMatching(query) == {i \in LiveSlots : docMatchesQuery(DocAt(i), query)}

\* operator objects: one comparison, one membership list, or two operators
CheckArrays == {<<0>>, <<1>>, <<0, 1>>}
CheckOps ==
    {Ops(<<<<op, v>>>>) : op \in {"$gt", "$gte", "$lt", "$lte", "$ne"}, v \in Values}
    \cup {Ops(<<<<op, arr>>>>) : op \in {"$in", "$nin"}, arr \in CheckArrays}
    \cup {Ops(<<<<"$gte", 0>>, <<"$lt", 1>>>>), Ops(<<<<"$ne", 1>>, <<"$gt", 0>>>>),
          Ops(<<<<"$ne", 0>>, <<"$nin", <<1>>>>>>), Ops(<<<<"$nin", <<0>>>>, <<"$lte", 1>>>>)}
CheckValues == {Lit(v) : v \in Values} \cup CheckOps

\* the queries find is checked with: the empty one, every one-field query over
\* CheckValues, and two-field queries in both field orders
CheckQueries ==
    {<<>>}
    \cup {Q1(f, qv) : f \in Fields, qv \in CheckValues}
    \cup {Q2(fg[1], qv, fg[2], qw) : fg \in {<<"a", "b">>, <<"b", "a">>},
                                     qv \in {Lit(0), Ops(<<<<"$lt", 1>>>>), Ops(<<<<"$ne", 1>>>>)},
                                     qw \in {Lit(1), Ops(<<<<"$in", <<0, 1>>>>>>), Ops(<<<<"$gte", 1>>>>)}}

\* C1: find(q) returns exactly the live documents the predicate evaluator
\* accepts, whichever access path the planner picks
FindReturnsMatching ==
    \A query \in CheckQueries :
        LET indices == find(This, query).indices IN
        Elems(indices) = LiveMatching(query) /\ NoDuplicates(indices)

\* C2: every entry of the result cache is the slot list the planner/executor
\* computes for its query on the current store and indexes
CacheIsFresh ==
    cacheEnabled =>
        /\ DOMAIN queryCache \subseteq {Stringify(query) : query \in CallQueries}
        /\ \A query \in CallQueries :
              Stringify(query) \in DOMAIN queryCache =>
                  queryCache[Stringify(query)] = _runQuery(This, query)

\* C2 witness: after a delete, a cached slot list that is not empty
CacheWitness ==
    /\ cacheEnabled
    /\ Tombstones # {}
    /\ \E key \in DOMAIN queryCache : queryCache[key] # <<>>

\* C3: no two live documents hold the same value for a unique field
UniqueValues ==
    \A key \in uniqueKeys : \A i \in LiveSlots, j \in LiveSlots :
        (i # j /\ HasOwn(DocAt(i), key) /\ HasOwn(DocAt(j), key)) => DocAt(i)[key] # DocAt(j)[key]

\* C3 witness: two live documents with the unique field, equal in another field
UniqueWitness ==
    \E key \in uniqueKeys : \E other \in Fields \ uniqueKeys :
        \E i \in LiveSlots, j \in LiveSlots :
            /\ i # j
            /\ HasOwn(DocAt(i), key) /\ HasOwn(DocAt(j), key)
            /\ HasOwn(DocAt(i), other) /\ HasOwn(DocAt(j), other)
            /\ DocAt(i)[other] = DocAt(j)[other]

\* the entries <<value, slot list>> of the index of field f, each as stored
HashEntries(f) == {<<v, hashIndexes[f][v]>> : v \in DOMAIN hashIndexes[f]}
BtreeEntries(f) == Elems(BTreeRange(btreeIndexes[f], NoRange))
IndexEntries(f) == IF indexTypes[f] = "hash" THEN HashEntries(f) ELSE BtreeEntries(f)

\* the live slots whose document has own field f equal to v
SlotsHolding(f, v) == {i \in LiveSlots : HasOwn(DocAt(i), f) /\ DocAt(i)[f] = v}

\* C4: the slot list an index keeps under a value is exactly the live slots
\* whose document holds that value, without a tombstoned slot, a repeated
\* slot or an empty list; a value is kept once, and every held value is kept
IndexCoherent ==
    \A f \in DOMAIN indexTypes :
        /\ \A entry \in IndexEntries(f) :
              /\ entry[2] # <<>>
              /\ NoDuplicates(entry[2])
              /\ Elems(entry[2]) = SlotsHolding(f, entry[1])
        /\ \A e1 \in IndexEntries(f), e2 \in IndexEntries(f) : e1[1] = e2[1] => e1 = e2
        /\ indexTypes[f] = "btree" =>
              NoDuplicates(InOrder(btreeIndexes[f].root))
        /\ \A i \in LiveSlots :
              HasOwn(DocAt(i), f) => \E entry \in IndexEntries(f) : entry[1] = DocAt(i)[f]

\* C4 witness: a tombstoned slot beside a live document that holds both
\* indexed fields
IndexWitness ==
    /\ Tombstones # {}
    /\ \E i \in LiveSlots : \A f \in DOMAIN indexTypes : HasOwn(DocAt(i), f)
    /\ \A f \in DOMAIN indexTypes : Cardinality(IndexEntries(f)) = 1

\* some live document holds the value doc gives to one of its unique fields
ValueTaken(doc) ==
    \E key \in uniqueKeys : HasOwn(doc, key) /\ SlotsHolding(key, doc[key]) # {}

\* C9: create of a schema-valid document throws the uniqueness violation
\* exactly when a live document holds the same value for a unique field of it
CreateThrowsIffTaken ==
    \A doc \in Docs : (create(This, doc).threw = "unique") <=> ValueTaken(doc)

\* C9 witness: beside a tombstoned slot, one create throws and another, with
\* the unique field too, returns
CreateWitness ==
    /\ Tombstones # {}
    /\ \E doc \in Docs : create(This, doc).threw = "unique"
    /\ \E doc \in Docs : \E key \in uniqueKeys : HasOwn(doc, key) /\ create(This, doc).threw = ""

\* the call left the slot array and every index as they are
StoreUntouched(r) ==
    /\ r.s.data = data
    /\ r.s.hashIndexes = hashIndexes
    /\ r.s.btreeIndexes = btreeIndexes

\* C10: a create, updateOne or updateMany that throws leaves the slot array
\* and every index as they were before the call
ThrowLeavesStore ==
    /\ \A doc \in CallDocs :
          LET r == create(This, doc) IN r.threw # "" => StoreUntouched(r)
    /\ \A query \in CallQueries, update \in CallPatches :
          LET r == updateOne(This, query, update) IN r.threw # "" => StoreUntouched(r)
    /\ \A query \in CallQueries, update \in CallPatches :
          LET r == updateMany(This, query, update) IN r.threw # "" => StoreUntouched(r)

\* C10 witness: a state where create and updateOne throw the uniqueness
\* violation and updateOne and updateMany throw the schema error
ThrowWitness ==
    /\ \E doc \in CallDocs : create(This, doc).threw = "unique"
    /\ \E query \in CallQueries, update \in CallPatches :
          updateOne(This, query, update).threw = "unique"
    /\ \E query \in CallQueries, update \in CallPatches :
          updateOne(This, query, update).threw = "schema"
    /\ \E query \in CallQueries, update \in CallPatches :
          updateMany(This, query, update).threw = "schema"

\* ------------------------------------- SonicDB: what is checked of each call

\* the slots of a slot array d that hold a document with own field f equal to v
HoldersIn(d, f, v) ==
    {i \in 0..(Len(d) - 1) : IsSome(At(d, i)) /\ HasOwn(Get(At(d, i)), f) /\ Get(At(d, i))[f] = v}

\* the entries <<value, slot list>> of the index of field f in the SonicDB s
EntriesIn(s, f) ==
    IF indexTypes[f] = "hash"
    THEN {<<v, s.hashIndexes[f][v]>> : v \in DOMAIN s.hashIndexes[f]}
    ELSE Elems(BTreeRange(s.btreeIndexes[f], NoRange))

\* the indexes of s hold exactly the documents of its slot array
IndexesMatch(s) ==
    \A f \in DOMAIN indexTypes :
        /\ \A entry \in EntriesIn(s, f) :
              /\ entry[2] # <<>>
              /\ NoDuplicates(entry[2])
              /\ Elems(entry[2]) = HoldersIn(s.data, f, entry[1])
        /\ \A v \in Values : HoldersIn(s.data, f, v) # {} => \E entry \in EntriesIn(s, f) : entry[1] = v

\* the shallow merge of old and patch, field by field
IsMergeOf(new, old, patch) ==
    /\ DOMAIN new = (DOMAIN old) \cup (DOMAIN patch)
    /\ \A f \in DOMAIN new :
          new[f] = IF f \in DOMAIN patch THEN patch[f] ELSE old[f]

\* a live document of d at another slot than index holds the value patch
\* gives to a unique field
TakenElsewhere(d, patch, index) ==
    \E key \in uniqueKeys :
        HasOwn(patch, key) /\ (HoldersIn(d, key, patch[key]) \ {index}) # {}

RECURSIVE BatchOutcome(_, _, _, _, _)
\* what claim C11 expects of updateMany on the slot array d: the matched slots
\* taken one by one, a slot whose update would violate uniqueness left as it
\* is, every other one replaced by its merge with patch and counted
BatchOutcome(d, indices, patch, i, count) ==
    IF i > Len(indices) THEN [data |-> d, count |-> count]
    ELSE IF TakenElsewhere(d, patch, indices[i])
    THEN BatchOutcome(d, indices, patch, i + 1, count)
    ELSE BatchOutcome(SetAt(d, indices[i], Some(Merge(Get(At(d, indices[i])), patch))),
                      indices, patch, i + 1, count + 1)

\* C11: updateMany never throws the uniqueness violation; it takes the matched
\* slots one by one, leaves a slot whose update would violate uniqueness
\* unchanged, replaces the others, keeps the indexes exact, and returns the
\* number of slots replaced
BatchSkipsViolations ==
    \A query \in CallQueries, update \in CallPatches :
        LET r == updateMany(This, query, update)
            expected == BatchOutcome(data, _findIndices(This, query).indices, update, 1, 0)
        IN /\ r.threw # "unique"
           /\ r.threw = "" =>
                 /\ r.s.data = expected.data
                 /\ r.count = expected.count
                 /\ IndexesMatch(r.s)

\* C11 witness: an updateMany call that matches two slots, replaces one and
\* skips the other
BatchWitness ==
    \E query \in CallQueries, update \in CallPatches :
        LET r == updateMany(This, query, update) IN
        /\ r.threw = ""
        /\ Len(_findIndices(This, query).indices) = 2
        /\ r.count = 1

\* no cache entry stored before the call is left after it
EarlierEntriesGone(r) == (DOMAIN queryCache) \cap (DOMAIN r.s.queryCache) = {}

\* every cache entry stored before the call is left as it was
EarlierEntriesKept(r) ==
    \A key \in DOMAIN queryCache :
        key \in DOMAIN r.s.queryCache /\ r.s.queryCache[key] = queryCache[key]

\* C12 as stated: every create, updateOne, updateMany, deleteOne, deleteMany
\* and loadData call, also one that fails or changes nothing, leaves no cache
\* entry stored before it
EveryWriteClearsCache ==
    /\ \A doc \in CallDocs : EarlierEntriesGone(create(This, doc))
    /\ \A query \in CallQueries :
          /\ EarlierEntriesGone(deleteOne(This, query))
          /\ EarlierEntriesGone(deleteMany(This, query))
          /\ \A update \in CallPatches :
                /\ EarlierEntriesGone(updateOne(This, query, update))
                /\ EarlierEntriesGone(updateMany(This, query, update))
    /\ \A dataArray \in LoadArrays : EarlierEntriesGone(loadData(This, dataArray))

\* what the code does for one create, update or delete call: the cache is
\* empty after a call that created, replaced or tombstoned a document; a call
\* that throws or whose count is 0 leaves the store, the indexes and the
\* earlier cache entries as they were
ClearsWhenChanged(r) ==
    IF r.threw = "" /\ r.count > 0
    THEN r.s.queryCache = EmptyMap
    ELSE StoreUntouched(r) /\ EarlierEntriesKept(r)

\* C12 amended: create, updateOne, updateMany, deleteOne and deleteMany clear
\* the cache exactly when they changed a document, loadData always
ChangingWriteClearsCache ==
    /\ \A doc \in CallDocs : ClearsWhenChanged(create(This, doc))
    /\ \A query \in CallQueries :
          /\ ClearsWhenChanged(deleteOne(This, query))
          /\ ClearsWhenChanged(deleteMany(This, query))
          /\ \A update \in CallPatches :
                /\ ClearsWhenChanged(updateOne(This, query, update))
                /\ ClearsWhenChanged(updateMany(This, query, update))
    /\ \A dataArray \in LoadArrays : loadData(This, dataArray).s.queryCache = EmptyMap

\* C12 witness: with an entry in the cache, a create throws, an updateMany
\* matches a document and replaces none, and a deleteOne tombstones one
ClearWitness ==
    /\ queryCache # EmptyMap
    /\ \E doc \in CallDocs : create(This, doc).threw # ""
    /\ \E query \in CallQueries, update \in CallPatches :
          /\ updateMany(This, query, update).threw = ""
          /\ updateMany(This, query, update).count = 0
          /\ Len(_findIndices(This, query).indices) > 0
    /\ \E query \in CallQueries : deleteOne(This, query).count = 1

\* C13: with the cache enabled, a find(q) that directly follows a find(q)
\* returns the same slot list, does not invoke _runQuery and changes nothing,
\* also when the list is empty
SecondFindIsCacheHit ==
    cacheEnabled =>
        \A query \in CallQueries :
            LET first == find(This, query) IN
            LET second == find(first.s, query) IN
            /\ second.indices = first.indices
            /\ ~second.ran
            /\ second.s = first.s

\* C13 witness: beside a live document, a first find that runs the query and
\* finds nothing, and one that runs the query and finds a document
SecondFindWitness ==
    /\ cacheEnabled
    /\ LiveSlots # {}
    /\ \E query \in CallQueries : find(This, query).ran /\ find(This, query).indices = <<>>
    /\ \E query \in CallQueries : find(This, query).ran /\ find(This, query).indices # <<>>

\* the empty query {}
EmptyQuery == <<>>

\* C14: find({}) returns the documents of the live slots and no other, each
\* once, in ascending slot order
FindAllReturnsLive ==
    LET r == find(This, EmptyQuery) IN
    LET docs == DocsAt(r.s, r.indices) IN
    /\ Elems(r.indices) = LiveSlots
    /\ \A j \in 1..(Len(r.indices) - 1) : r.indices[j] < r.indices[j + 1]
    /\ Len(docs) = Len(r.indices)
    /\ \A j \in 1..Len(docs) : docs[j] = DocAt(r.indices[j])

\* C14 witness: a tombstone below a live document, and find({}) runs the query
FindAllWitness ==
    /\ \E i \in Tombstones, j \in LiveSlots : i < j
    /\ find(This, EmptyQuery).ran

\* the step appends one live document and leaves the slots before it alone
AppendsOne ==
    /\ Len(data') = Len(data) + 1
    /\ IsSome(Last(data'))
    /\ Slice(data', 0, Len(data)) = data

\* every create that returns gives its document the slot data.length had
\* before the call and leaves the other slots alone
CreateAppends ==
    \A doc \in CallDocs :
        LET r == create(This, doc) IN
        r.threw = "" => r.s.data = Append(data, Some(doc))

\* C15: in every step of a call other than loadData the slot array does not
\* shrink, a null slot stays null, the array grows only by one live document
\* appended at the old length, and a create that returns appends its document
SlotsAreNeverReused ==
    [][/\ Len(data') >= Len(data)
       /\ \A i \in Tombstones : ~IsSome(At(data', i))
       /\ Len(data') > Len(data) => AppendsOne
       /\ CreateAppends]_vars

\* C15 witness: the slot of a deleted document is null beside the live
\* document of a later slot
SlotsWitness ==
    /\ Len(data) = MaxDocs
    /\ 0 \in Tombstones
    /\ (Len(data) - 1) \in LiveSlots

\* the slot array d with the slots of S set to null
RECURSIVE WithNull(_, _)
WithNull(d, S) ==
    IF S = {} THEN d
    ELSE LET i == CHOOSE j \in S : TRUE IN WithNull(SetAt(d, i, None), S \ {i})

\* C16: when a live document matches q, deleteOne(q) returns 1 and sets the
\* slot of exactly one matching document to null, the indexes holding the
\* documents that remain, and when that document was the only match the same
\* call made again returns 0; when no live document matches, deleteOne(q)
\* returns 0 and leaves the slot array and the indexes as they are
DeleteOneDeletesAMatch ==
    \A query \in CallQueries :
        LET r == deleteOne(This, query) IN
        IF LiveMatching(query) # {}
        THEN /\ r.count = 1
             /\ \E i \in LiveMatching(query) : r.s.data = SetAt(data, i, None)
             /\ IndexesMatch(r.s)
             /\ Cardinality(LiveMatching(query)) = 1 => deleteOne(r.s, query).count = 0
        ELSE r.count = 0 /\ StoreUntouched(r)

\* C17: deleteMany(q) sets the slots of exactly the live documents matching q
\* to null, leaves the indexes holding exactly the documents that remain,
\* returns the number of slots it set to null, and the find(q) that follows
\* returns no document
DeleteManyDeletesMatches ==
    \A query \in CallQueries :
        LET r == deleteMany(This, query) IN
        /\ r.s.data = WithNull(data, LiveMatching(query))
        /\ IndexesMatch(r.s)
        /\ r.count = Cardinality(LiveMatching(query))
        /\ DocsAt(r.s, find(r.s, query).indices) = <<>>

\* C18: an updateOne that returns 1 replaces the document of exactly one live
\* slot by the shallow merge of that document and the patch, at the same
\* slot, and leaves every other slot as it is
UpdateOneMergesInPlace ==
    \A query \in CallQueries, update \in CallPatches :
        LET r == updateOne(This, query, update) IN
        (r.threw = "" /\ r.count = 1) =>
            /\ Len(r.s.data) = Len(data)
            /\ \E i \in LiveSlots :
                  /\ IsSome(At(r.s.data, i))
                  /\ IsMergeOf(Get(At(r.s.data, i)), DocAt(i), update)
                  /\ \A j \in (0..(Len(data) - 1)) \ {i} : At(r.s.data, j) = At(data, j)

\* C18 witness: beside another live document, an updateOne that returns 1 and
\* whose patch changes one field of a document that has a field the patch
\* does not name
UpdateOneWitness ==
    /\ Cardinality(LiveSlots) = 2
    /\ \E query \in CallQueries, update \in CallPatches :
          LET r == updateOne(This, query, update) IN
          /\ r.threw = "" /\ r.count = 1
          /\ \E i \in LiveSlots :
                /\ At(r.s.data, i) # At(data, i)
                /\ DOMAIN update # {}
                /\ (DOMAIN DocAt(i)) \ (DOMAIN update) # {}

\* C19: whatever the state before, loadData(docs) returns and leaves the slot
\* array holding docs[i] at slot i for every i and nothing else, the indexes
\* holding exactly these documents, and the result cache empty
LoadDataReplacesAll ==
    \A dataArray \in LoadArrays :
        LET r == loadData(This, dataArray) IN
        /\ r.threw = ""
        /\ r.s.data = [i \in 1..Len(dataArray) |-> Some(dataArray[i])]
        /\ IndexesMatch(r.s)
        /\ r.s.queryCache = EmptyMap

\* C19 witness: loadData of two documents called on a SonicDB with a null
\* slot, a live document, index entries and a cached result
LoadDataWitness ==
    /\ Tombstones # {}
    /\ LiveSlots # {}
    /\ queryCache # EmptyMap
    /\ \E f \in DOMAIN indexTypes : EntriesIn(This, f) # {}
    /\ \E dataArray \in LoadArrays :
          Len(dataArray) = 2 /\ loadData(This, dataArray).s.data # data

\* the error create would raise for dataArray[i] after the documents before
\* it were inserted: "schema", "unique" or none
RejectedAt(dataArray, i) ==
    IF ~_validate(dataArray[i]) THEN "schema"
    ELSE IF \E j \in 1..(i - 1), key \in uniqueKeys :
                /\ HasOwn(dataArray[i], key) /\ HasOwn(dataArray[j], key)
                /\ dataArray[i][key] = dataArray[j][key]
    THEN "unique"
    ELSE ""

\* C20: loadData rejects an array with a document create would reject, with
\* create's error for the first such document, and after loadData no two live
\* documents hold the same value of a unique field
LoadDataRejectsLikeCreate ==
    \A dataArray \in LoadArrays :
        LET r == loadData(This, dataArray) IN
        LET bad == {i \in 1..Len(dataArray) : RejectedAt(dataArray, i) # ""} IN
        /\ bad # {} =>
              r.threw = RejectedAt(dataArray, CHOOSE i \in bad : \A j \in bad : i <= j)
        /\ \A key \in uniqueKeys, v \in Values : Cardinality(HoldersIn(r.s.data, key, v)) <= 1

RECURSIVE Shape(_)
\* the node without its values: its keys, its leaf flag, its children's shapes
Shape(n) ==
    [keys |-> n.keys, leaf |-> n.leaf,
     children |-> [i \in 1..Len(n.children) |-> Shape(n.children[i])]]

\* the values insert is checked with for every key
SlotLists == {<<0>>, <<1>>, <<0, 1>>}

\* C30: insert(key, value) for a key the tree holds leaves the degree, the
\* nodes, their keys and children as they are, makes value the value of key,
\* and leaves the value of every other key as it is
InsertExistingReplaces ==
    \A k \in Keys :
        IsSome(BTreeSearch(tree, k)) =>
            \A v \in SlotLists :
                LET r == BTreeInsert(tree, k, v) IN
                /\ r.t = tree.t
                /\ Shape(r.root) = Shape(tree.root)
                /\ BTreeSearch(r, k) = Some(v)
                /\ \A other \in Keys \ {k} : BTreeSearch(r, other) = BTreeSearch(tree, other)

\* C30 witness: a full root with children, and an insert of one of the root's
\* keys with a value other than the one it has
InsertExistingWitness ==
    /\ ~tree.root.leaf
    /\ Len(tree.root.keys) = (2 * tree.t) - 1
    /\ \E i \in 1..Len(tree.root.keys), v \in SlotLists :
          /\ BTreeSearch(tree, tree.root.keys[i]) # Some(v)
          /\ BTreeInsert(tree, tree.root.keys[i], v) # tree

\* the nodes _splitChild is called on: every internal node of the tree and
\* the new root insert puts above the root
SplitParents ==
    {n \in {tree.root} \cup NodesBelow(tree.root) : ~n.leaf}
    \cup {[keys |-> <<>>, values |-> <<>>, children |-> <<tree.root>>, leaf |-> FALSE]}

\* the split of child p.children[i] (1-based) gives the parent q: the child
\* keeps its lower t-1 entries (and lower t children), a new node right of it
\* holds the upper t-1 entries (and upper t children), the median entry
\* stands in the parent at the child's place, and the rest of the parent is
\* as it was
IsSplitOf(q, p, i, t) ==
    LET c == p.children[i]
        left == q.children[i]
        right == q.children[i + 1]
    IN /\ q.leaf = p.leaf
       /\ q.keys = SubSeq(p.keys, 1, i - 1) \o <<c.keys[t]>> \o SubSeq(p.keys, i, Len(p.keys))
       /\ q.values = SubSeq(p.values, 1, i - 1) \o <<c.values[t]>> \o SubSeq(p.values, i, Len(p.values))
       /\ Len(q.children) = Len(p.children) + 1
       /\ \A j \in 1..(i - 1) : q.children[j] = p.children[j]
       /\ \A j \in (i + 1)..Len(p.children) : q.children[j + 1] = p.children[j]
       /\ left.leaf = c.leaf /\ right.leaf = c.leaf
       /\ left.keys = SubSeq(c.keys, 1, t - 1)
       /\ left.values = SubSeq(c.values, 1, t - 1)
       /\ right.keys = SubSeq(c.keys, t + 1, (2 * t) - 1)
       /\ right.values = SubSeq(c.values, t + 1, (2 * t) - 1)
       /\ left.children = (IF c.leaf THEN <<>> ELSE SubSeq(c.children, 1, t))
       /\ right.children = (IF c.leaf THEN <<>> ELSE SubSeq(c.children, t + 1, 2 * t))

\* C31: _splitChild of a full child, of every internal node of the tree and
\* of the new root above a full root, moves the upper t-1 entries and upper
\* t children into a new right sibling, the median into the parent, and
\* leaves the lower t-1 entries
SplitMovesUpperHalf ==
    \A p \in SplitParents :
        \A i \in 1..Len(p.children) :
            Len(p.children[i].keys) = (2 * tree.t) - 1 =>
                IsSplitOf(_splitChild(p, i - 1, tree.t), p, i, tree.t)

\* C31 witness: a full root with children is split below the new root insert
\* puts above it, and the new right sibling takes t children with it
SplitWitness ==
    /\ ~tree.root.leaf
    /\ Len(tree.root.keys) = (2 * tree.t) - 1
    /\ LET above == [keys |-> <<>>, values |-> <<>>, children |-> <<tree.root>>, leaf |-> FALSE]
           q == _splitChild(above, 0, tree.t)
       IN /\ Len(q.children) = 2
          /\ Len(q.children[2].children) = tree.t
          /\ q.keys = <<tree.root.keys[tree.t]>>

\* the key lies strictly between the parent's keys either side of the child
InKeyRange(d) ==
    /\ d.target = 0 \/ At(d.parent.keys, d.target - 1) < d.key
    /\ d.target = Len(d.parent.keys) \/ d.key < At(d.parent.keys, d.target)

\* C32: every child delete descends into holds at least t keys when it is
\* entered, and the child entered after a fill is the one whose key range
\* contains the key
DescentIntoFilledChild ==
    \A k \in Keys :
        \A d \in Descents(tree.root, k, tree.t) :
            /\ Len(Entered(d).keys) >= tree.t
            /\ d.filled => InKeyRange(d)

\* C32 witness: a delete whose fill merges the last child into its left
\* sibling and descends into the merged node, and a delete whose fill borrows
DescentWitness ==
    /\ \E k \in Keys : \E d \in Descents(tree.root, k, tree.t) :
          /\ d.filled
          /\ d.target = d.idx - 1
          /\ Len(Entered(d).keys) = (2 * tree.t) - 1
    /\ \E k \in Keys : \E d \in Descents(tree.root, k, tree.t) :
          /\ d.filled
          /\ Len(Entered(d).keys) = tree.t

\* the calls of an OrderedIndex return what they return on a new tree
DefinedLikeNew(tr) ==
    /\ \A k \in Keys : BTreeSearch(tr, k) = None
    /\ \A k \in Keys : BTreeDelete(tr, k) = tr
    /\ \A r \in RangeArgs : BTreeRange(tr, r) = <<>>
    /\ \A k \in Keys : \A v \in Vals(k) :
          LET after == BTreeInsert(tr, k, v)
          IN after.root = [EmptyNode EXCEPT !.keys = <<k>>, !.values = <<v>>]

\* C33: after delete returns the root is a leaf or holds at least one key; a
\* root left without keys above one child is replaced by that child; and the
\* delete of the last key leaves an empty leaf root on which search, insert,
\* delete and range are defined
RootAfterDelete ==
    \A k \in Keys :
        LET r == delete(tree.root, k, tree.t)
            after == BTreeDelete(tree, k)
        IN /\ after.root.leaf \/ Len(after.root.keys) >= 1
           /\ (Len(r.keys) = 0 /\ ~r.leaf) =>
                 (Len(r.children) = 1 /\ after.root = At(r.children, 0))
           /\ StoredKeys = {k} => (after.root = EmptyNode /\ DefinedLikeNew(after))

\* C33 witness: a delete that leaves the root without keys above one child
RootWitness ==
    \E k \in StoredKeys :
        LET r == delete(tree.root, k, tree.t)
        IN Len(r.keys) = 0 /\ ~r.leaf /\ Len(At(r.children, 0).keys) = (2 * tree.t) - 1

\* the keys search finds nothing under
AbsentKeys == {k \in Keys : ~IsSome(BTreeSearch(tree, k))}

\* C34: delete of a key that is not stored leaves the stored entries as they
\* are: the same keys in order, and search and range return what they did
DeleteAbsentKeepsEntries ==
    \A k \in AbsentKeys :
        LET after == BTreeDelete(tree, k)
        IN /\ InOrder(after.root) = InOrder(tree.root)
           /\ \A j \in Keys : BTreeSearch(after, j) = BTreeSearch(tree, j)
           /\ \A r \in RangeArgs : BTreeRange(after, r) = BTreeRange(tree, r)

\* C34 witness: a delete of a key that is not stored which merges two
\* children on its way down, so the nodes change and the entries do not
DeleteAbsentWitness ==
    \E k \in AbsentKeys :
        LET after == BTreeDelete(tree, k)
        IN /\ after.root # tree.root
           /\ \E d \in Descents(tree.root, k, tree.t) :
                 d.filled /\ Len(Entered(d).keys) = (2 * tree.t) - 1
           /\ Cardinality(StoredKeys) >= 3

\* the entries of the index of field f
IndexOf(s, f) == IF indexTypes[f] = "hash" THEN s.hashIndexes[f] ELSE s.btreeIndexes[f]

\* C35: addToIndexes of QueryEngine makes entries only for the indexed fields
\* the document has, and checkUniqueness looks only at the unique fields the
\* partial document has: a document that has none of the unique fields is
\* accepted whatever is stored, and so is a patch that has none of them
AbsentFieldIsSkipped ==
    /\ \A doc \in Docs : \A f \in DOMAIN indexTypes :
          ~HasOwn(doc, f) => IndexOf(addToIndexes(This, doc, Len(data)), f) = IndexOf(This, f)
    /\ \A doc \in Docs :
          (\A f \in uniqueKeys : ~HasOwn(doc, f)) =>
              /\ checkUniqueness(This, doc, -1)
              /\ \A slot \in 0..(Len(data) - 1) : checkUniqueness(This, doc, slot)

\* C36: every call of the OrderedIndex that begins on a reachable tree
\* returns: the probe loop of insert and the recursions of search, insert,
\* delete and range come to an end
WalkTerminates == (walk # Idle) ~> (walk = Idle)

\* C36 witness: a delete under way in a child of the root, where it removes
\* the predecessor or successor it moved up in place of the key
WalkWitness ==
    /\ walk.op = "delete"
    /\ walk.seek # walk.key
    /\ Head(walk.at) # tree.root

\* C37: whichever access path is used, find(q) lists the slots in ascending
\* order, so that the first of them, which findOne, updateOne and deleteOne
\* take, is the earliest-created matching document
FindInSlotOrder ==
    \A query \in CheckQueries :
        LET indices == find(This, query).indices IN
        /\ \A i \in 1..(Len(indices) - 1) : indices[i] < indices[i + 1]
        /\ Len(indices) > 0 =>
              \A j \in 1..Len(indices) : _findIndex(This, query).index <= indices[j]

\* the store with the same documents and indexes and the cache disabled
CacheOff(s) == [s EXCEPT !.queryCache = EmptyMap, !.cacheEnabled = FALSE]

\* a mutating call has the same outcome on both stores, and leaves them with
\* the same documents and indexes
SameWrite(re, rd) ==
    /\ re.threw = rd.threw
    /\ re.count = rd.count
    /\ CacheOff(re.s) = rd.s

\* a read returns the same slots and documents on both stores
SameRead(re, rd) ==
    /\ re.indices = rd.indices
    /\ DocsAt(re.s, re.indices) = DocsAt(rd.s, rd.indices)
    /\ CacheOff(re.s) = rd.s

\* C38: the cache is transparent. A store with the cache disabled keeps its
\* cache map empty; and the store with the cache enabled and the store with
\* the same documents and indexes and the cache disabled return the same
\* from every call and hold the same documents and indexes after it, so that
\* the two stay alike along every sequence of calls
CacheIsTransparent ==
    /\ ~cacheEnabled => queryCache = EmptyMap
    /\ cacheEnabled =>
          LET off == CacheOff(This) IN
          /\ \A query \in CallQueries :
                /\ SameRead(find(This, query), find(off, query))
                /\ _findIndex(This, query).index = _findIndex(off, query).index
                /\ CacheOff(_findIndex(This, query).s) = _findIndex(off, query).s
                /\ SameWrite(deleteOne(This, query), deleteOne(off, query))
                /\ SameWrite(deleteMany(This, query), deleteMany(off, query))
                /\ \A update \in CallPatches :
                      /\ SameWrite(updateOne(This, query, update), updateOne(off, query, update))
                      /\ SameWrite(updateMany(This, query, update), updateMany(off, query, update))
          /\ \A doc \in CallDocs : SameWrite(create(This, doc), create(off, doc))
          /\ \A dataArray \in LoadArrays :
                SameWrite(loadData(This, dataArray), loadData(off, dataArray))

\* C38 witness: a store with the cache enabled that holds a cached result for
\* a query with a match, so that find is answered from the cache there and by
\* the planner in the store without the cache
TransparentWitness ==
    /\ cacheEnabled
    /\ \E query \in CallQueries :
          /\ ~find(This, query).ran
          /\ find(CacheOff(This), query).ran
          /\ Len(find(This, query).indices) > 0
    /\ Cardinality(LiveSlots) = 2

\* C39: callbacks that call create, updateOne and deleteOne from inside a
\* hook leave the store coherent when the outer call has returned: every
\* index lists under a value exactly the live slots that hold it, each once,
\* no slot stands under two values of a field, and every cached slot list is
\* what the planner computes
ReentrantHooksKeepCoherence ==
    /\ \A f \in DOMAIN indexTypes :
          /\ \A entry \in IndexEntries(f) :
                /\ entry[2] # <<>>
                /\ NoDuplicates(entry[2])
                /\ Elems(entry[2]) = SlotsHolding(f, entry[1])
          /\ \A e1 \in IndexEntries(f), e2 \in IndexEntries(f) :
                e1 # e2 => Elems(e1[2]) \cap Elems(e2[2]) = {}
          /\ \A i \in LiveSlots :
                HasOwn(DocAt(i), f) => \E entry \in IndexEntries(f) : entry[1] = DocAt(i)[f]
    /\ DOMAIN queryCache \subseteq {Stringify(query) : query \in ReenterQueries}
    /\ \A query \in ReenterQueries :
          Stringify(query) \in DOMAIN queryCache =>
              queryCache[Stringify(query)] = _runQuery(This, query)

\* C39 witness: more documents than the calls from outside create, so that a
\* callback has created one from inside a hook, with a document deleted and a
\* cached slot list
ReentrantWitness ==
    /\ Len(data) > MaxDocs
    /\ Tombstones # {}
    /\ \E key \in DOMAIN queryCache : queryCache[key] # <<>>
    /\ \E key \in DOMAIN hooks : \E i \in 1..Len(hooks[key]) : hooks[key][i].does # <<>>

\* ------------------------------------------- what is checked of the planner

\* C21: the constructor throws for every degree below 2 and gives no tree,
\* and for a degree t >= 2 it returns a tree of degree t whose root is a leaf
\* without keys, values or children; no tree in use has a degree below 2
ConstructorChecksDegree ==
    /\ \A t \in DegreeArgs :
          LET r == BTreeConstructor(t) IN
          IF t < 2 THEN r.threw # "" /\ r.tree = None
          ELSE /\ r.threw = ""
               /\ Get(r.tree).t = t
               /\ Get(r.tree).root = [keys |-> <<>>, values |-> <<>>, children |-> <<>>, leaf |-> TRUE]
    /\ tree.t >= 2

\* C21 witness: the tree as the constructor returned it for the largest
\* degree, while the constructor throws for degree 1
ConstructorWitness ==
    /\ tree.t = MaxDegree
    /\ tree = Get(BTreeConstructor(tree.t).tree)
    /\ BTreeConstructor(1).threw # ""

\* the query values the planner is checked with
PlanValues ==
    {Lit(0), Lit(1),
     Ops(<<<<"$gt", 0>>>>), Ops(<<<<"$ne", 0>>>>), Ops(<<<<"$in", <<0, 1>>>>>>),
     Ops(<<<<"$nin", <<0>>>>>>), Ops(<<<<"$ne", 1>>, <<"$lte", 1>>>>),
     Ops(<<<<"$regex", 0>>>>)}

\* the queries the planner is checked with: one field, or both in either order
PlanQueries ==
    {Q1(f, qv) : f \in Fields, qv \in PlanValues}
    \cup {Q2(fg[1], qv, fg[2], qw) : fg \in {<<"a", "b">>, <<"b", "a">>},
                                     qv \in PlanValues, qw \in PlanValues}

\* the operator names of an operator set
OpNames(qv) == {qv.ops[j][1] : j \in 1..Len(qv.ops)}

\* the field of the query entry e has an index of this type
Indexed(e, type) == e.key \in DOMAIN indexTypes /\ indexTypes[e.key] = type

\* hash-eligible: a hash index, and a plain literal or an operator set with $in
HashEligible(e) == Indexed(e, "hash") /\ (~e.value.isOp \/ "$in" \in OpNames(e.value))

\* ordered-eligible as specified: an ordered index, and a plain literal or an
\* operator set with one of $in, $gt, $gte, $lt, $lte
RangeEligible(e) ==
    Indexed(e, "btree")
    /\ (~e.value.isOp \/ OpNames(e.value) \cap {"$in", "$gt", "$gte", "$lt", "$lte"} # {})

\* an ordered index, and an operator set that holds $ne and nothing else
NeOnly(e) == Indexed(e, "btree") /\ e.value.isOp /\ OpNames(e.value) = {"$ne"}

\* the slots of the full-scan path: every slot that holds a document, ascending
FullScan(s) == SelectSeq([i \in 1..Len(s.data) |-> i - 1], LAMBDA i : IsSome(At(s.data, i)))

\* C24: a query with an ordered-indexed field asked for $ne alone, and no
\* hash-eligible or ordered-eligible field, gets no access path, and its
\* candidates are the slots of the full scan
NeOnlyTakesFullScan ==
    \A query \in PlanQueries :
        (/\ \E i \in 1..Len(query) : NeOnly(query[i])
         /\ \A i \in 1..Len(query) : ~HashEligible(query[i]) /\ ~RangeEligible(query[i]))
        => /\ BestPath(query) = None
           /\ Candidates(This, BestPath(query), query) = FullScan(This)

\* ordered-eligible as the planner tests it: as specified, or an operator
\* set with $ne
OrderedEligible(e) == RangeEligible(e) \/ (Indexed(e, "btree") /\ "$ne" \in OpNames(e.value))

\* the first entry of the query that P accepts
FirstSuch(query, P(_)) == query[CHOOSE i \in 1..Len(query) : P(query[i]) /\ \A j \in 1..(i - 1) : ~P(query[j])]

\* C25: when a field of the query is hash-eligible, the access path is the
\* hash index of the first such field in the query's order, with operator
\* $in for an operator set and exact for a literal, also after an earlier
\* ordered-eligible field
FirstHashFieldWins ==
    \A query \in PlanQueries :
        (\E i \in 1..Len(query) : HashEligible(query[i])) =>
            LET e == FirstSuch(query, HashEligible) IN
            BestPath(query) = Some([key |-> e.key, type |-> "hash",
                                    operator |-> IF e.value.isOp THEN "$in" ELSE "exact"])

\* C25 witness: a query whose first field is ordered-eligible and whose second
\* is hash-eligible, and find returns a document for it by the hash path
FirstHashWitness ==
    \E query \in PlanQueries :
        /\ Len(query) = 2
        /\ OrderedEligible(query[1]) /\ HashEligible(query[2])
        /\ Get(BestPath(query)).type = "hash"
        /\ find(This, query).indices # <<>>

NoneEligible(query) ==
    \A i \in 1..Len(query) :
        \/ query[i].key \notin DOMAIN indexTypes
        \/ Indexed(query[i], "hash") /\ query[i].value.isOp /\ "$in" \notin OpNames(query[i].value)
        \/ /\ Indexed(query[i], "btree") /\ query[i].value.isOp
           /\ OpNames(query[i].value) \cap {"$in", "$gt", "$gte", "$lt", "$lte", "$ne"} = {}

\* C27: a query that is not empty and has no eligible field gets no access
\* path, and its candidates are the slots that hold a document, ascending
NoEligibleFieldScansAll ==
    \A query \in PlanQueries :
        NoneEligible(query) =>
            /\ BestPath(query) = None
            /\ Candidates(This, BestPath(query), query) = FullScan(This)

\* C27 witness: a null slot below a live document, and a query without an
\* eligible field, one of its fields without an index and the other indexed,
\* for which find returns a document
FullScanWitness ==
    /\ \E i \in Tombstones, j \in LiveSlots : i < j
    /\ \E f \in Fields : f \notin DOMAIN indexTypes
    /\ \E query \in PlanQueries :
          /\ NoneEligible(query)
          /\ Len(query) = 2
          /\ \E i \in 1..2 : query[i].key \notin DOMAIN indexTypes
          /\ \E i \in 1..2 : Indexed(query[i], "hash") \/ Indexed(query[i], "btree")
          /\ find(This, query).indices # <<>>

\* the slots the ordered index of field f stores under key v
StoredUnder(f, v) ==
    LET found == BTreeSearch(btreeIndexes[f], v) IN
    IF IsSome(found) THEN Elems(Get(found)) ELSE {}

\* C28: for a query {f: v} on a field with an ordered index and every
\* literal v, 0 among them, the path is the ordered one and the candidates
\* are exactly the slots the index stores under v
LiteralIsPointLookup ==
    \A f \in Fields, v \in Values :
        (f \in DOMAIN indexTypes /\ indexTypes[f] = "btree") =>
            LET query == Q1(f, Lit(v)) IN
            /\ BestPath(query) = Some([key |-> f, type |-> "btree", operator |-> "range"])
            /\ Elems(Candidates(This, BestPath(query), query)) = StoredUnder(f, v)

\* the operators the predicate evaluator recognizes
Recognized == {"$gt", "$gte", "$lt", "$lte", "$ne", "$in", "$nin"}

\* the operand the operator set gives to the operator name
Operand(qv, name) == qv.ops[CHOOSE j \in 1..Len(qv.ops) : qv.ops[j][1] = name][2]

\* the constraint of one recognized operator on field f of the document; a
\* document without the field satisfies $ne and $nin and no other
Satisfies(doc, f, name, v) ==
    IF f \notin DOMAIN doc THEN name \in {"$ne", "$nin"}
    ELSE CASE name = "$gt" -> doc[f] > v
           [] name = "$gte" -> doc[f] >= v
           [] name = "$lt" -> doc[f] < v
           [] name = "$lte" -> doc[f] <= v
           [] name = "$ne" -> doc[f] # v
           [] name = "$in" -> doc[f] \in Elems(v)
           [] name = "$nin" -> doc[f] \notin Elems(v)

\* the conjunction over the fields of the query and the recognized operators
\* of each operator set; a literal asks for the field to hold it
MatchesAll(doc, query) ==
    \A i \in 1..Len(query) :
        LET f == query[i].key
            qv == query[i].value
        IN IF qv.isOp
           THEN \A name \in OpNames(qv) \cap Recognized : Satisfies(doc, f, name, Operand(qv, name))
           ELSE f \in DOMAIN doc /\ doc[f] = qv.lit

\* the queries the predicate evaluator is checked with
MatchQueries ==
    PlanQueries \cup CheckQueries
    \cup {Q1(f, Ops(<<<<"$regex", 0>>, <<op, 0>>>>)) : f \in Fields, op \in {"$gt", "$ne", "$options"}}

\* C29: docMatchesQuery accepts a document exactly when every field of the
\* query and every recognized operator of its operator set holds of it; an
\* operator set of unrecognized operators accepts every document, and find
\* with such a query returns every live document
MatchesIsConjunction ==
    /\ \A doc \in Docs, query \in MatchQueries :
          docMatchesQuery(doc, query) <=> MatchesAll(doc, query)
    /\ \A doc \in Docs, f \in Fields :
          /\ docMatchesQuery(doc, Q1(f, Ops(<<<<"$regex", 0>>>>)))
          /\ docMatchesQuery(doc, Q1(f, Ops(<<<<"$regex", 0>>, <<"$options", 0>>>>)))
    /\ \A f \in Fields : Elems(find(This, Q1(f, Ops(<<<<"$regex", 0>>>>))).indices) = LiveSlots

\* C29 witness: two live documents, one of them without field b, and a find
\* with an operator set of one unrecognized operator on b that runs the query
\* and returns both
MatchesWitness ==
    /\ Cardinality(LiveSlots) = 2
    /\ \E i \in LiveSlots : ~HasOwn(DocAt(i), "b")
    /\ LET r == find(This, Q1("b", Ops(<<<<"$regex", 0>>>>))) IN
       r.ran /\ Len(r.indices) = 2

\* ---------------------------------------------- what is checked of the hooks

\* the hooks h with every callback returning instead of throwing
Quiet(h) ==
    [key \in DOMAIN h |-> [i \in 1..Len(h[key]) |-> [h[key][i] EXCEPT !.throws = FALSE]]]

\* the invocations of fired without the mark of a caught exception
Uncaught(fired) == [i \in 1..Len(fired) |-> [fired[i] EXCEPT !.caught = FALSE]]

\* the calls r and q threw or returned the same, left the same slot array,
\* indexes and cache, and invoked the same callbacks in the same order with
\* the same arguments
SameEffect(r, q) ==
    /\ r.threw = q.threw
    /\ r.count = q.count
    /\ r.s.data = q.s.data
    /\ r.s.hashIndexes = q.s.hashIndexes
    /\ r.s.btreeIndexes = q.s.btreeIndexes
    /\ r.s.queryCache = q.s.queryCache
    /\ Uncaught(r.s.fired) = Uncaught(q.s.fired)

\* this SonicDB with callbacks that do not throw
QuietThis == [This EXCEPT !.hooks = Quiet(hooks)]

\* C22: with callbacks that throw, every create, updateOne, updateMany,
\* deleteOne and deleteMany throws only what it throws with the same
\* callbacks not throwing, returns the same count, leaves the same slot array,
\* indexes and cache, and invokes the same callbacks in the same order
HooksNeverFail ==
    /\ \A doc \in HookDocs : SameEffect(create(This, doc), create(QuietThis, doc))
    /\ \A query \in HookQueries, update \in HookPatches :
          /\ SameEffect(updateOne(This, query, update), updateOne(QuietThis, query, update))
          /\ SameEffect(updateMany(This, query, update), updateMany(QuietThis, query, update))
    /\ \A query \in HookQueries :
          /\ SameEffect(deleteOne(This, query), deleteOne(QuietThis, query))
          /\ SameEffect(deleteMany(This, query), deleteMany(QuietThis, query))

\* C22 witness: an updateOne that replaces a document although a callback of
\* an event threw, with a later callback of the same event invoked after it
HooksWitness ==
    \E query \in HookQueries, update \in HookPatches :
        LET r == updateOne(This, query, update) IN
        /\ r.threw = "" /\ r.count = 1 /\ r.s.data # data
        /\ \E i, j \in 1..Len(r.s.fired) :
              /\ i < j
              /\ r.s.fired[i].caught
              /\ r.s.fired[i].key = r.s.fired[j].key

\* the callbacks registered under key
FnsOf(key) == IF key \in DOMAIN hooks THEN hooks[key] ELSE <<>>

\* the call r, when it returns, has invoked each callback of key once, in the
\* order of registration, with the count it returns and after its last
\* change of the slot array, the indexes and the cache
PostFiredOnce(r, key) ==
    r.threw = "" =>
        LET post == SelectSeq(r.s.fired, LAMBDA e : e.key = key) IN
        /\ Len(post) = Len(FnsOf(key))
        /\ \A i \in 1..Len(post) :
              /\ post[i].fn = FnsOf(key)[i].name
              /\ post[i].count = Some(r.count)
              /\ post[i].data = r.s.data
              /\ post[i].hashIndexes = r.s.hashIndexes
              /\ post[i].btreeIndexes = r.s.btreeIndexes
              /\ post[i].queryCache = r.s.queryCache

\* C23: every updateOne, updateMany, deleteOne and deleteMany that returns
\* has run the post hook of its event once, after all its changes, with the
\* count it returns, also when that count is 0
PostHookFiresOnce ==
    /\ \A query \in HookQueries, update \in HookPatches :
          /\ PostFiredOnce(updateOne(This, query, update), PostKey("update"))
          /\ PostFiredOnce(updateMany(This, query, update), PostKey("update"))
    /\ \A query \in HookQueries :
          /\ PostFiredOnce(deleteOne(This, query), PostKey("delete"))
          /\ PostFiredOnce(deleteMany(This, query), PostKey("delete"))

\* C23 witness: with a post:update callback registered, an updateMany that
\* finds no slot and one that replaces a document
PostHookWitness ==
    /\ FnsOf(PostKey("update")) # <<>>
    /\ \E query \in HookQueries, update \in HookPatches :
          LET r == updateMany(This, query, update) IN
          r.threw = "" /\ r.count = 0 /\ r.s.fired # <<>>
    /\ \E query \in HookQueries, update \in HookPatches :
          LET r == updateMany(This, query, update) IN
          r.threw = "" /\ r.count > 0 /\ r.s.data # data

====
